---- MODULE Spec2Model ----
(***************************************************************************)
(* A model of the MCP research assistant: the local store (FileManager),   *)
(* the tool catalog and dispatcher (ResearchTools) and the JSON-RPC        *)
(* endpoint (handle_jsonrpc).                                              *)
(*                                                                         *)
(* Text is modelled as a sequence of one-character strings, so that the    *)
(* note header block is really written and really parsed.                  *)
(***************************************************************************)
EXTENDS Integers, Sequences, FiniteSets, TLC

VARIABLES
    config,         \* the configuration ResearchTools was constructed with
    groq_client,    \* TRUE iff ResearchTools.groq_client is not None
    github_client,  \* TRUE iff ResearchTools.github_client is not None
    notes,          \* notes_dir: file name -> file text
    summaries,      \* summaries_dir: file name -> stored summary
    references,     \* references_dir: file name -> stored reference
    saved,          \* history: file name -> the note last saved under that name
    clock,          \* datetime.now(), in ticks
    last,           \* the last operation performed and what it returned
    dispatched,     \* number of requests (call_tool, JSON-RPC) received
    answered,       \* number of requests that got a result or a response
    raisedBefore,   \* some earlier handler raised
    invoked,        \* number of registered JSON-RPC handlers invoked so far
    arxiv_client,   \* the ArXivClient: delay_seconds and _last_request_time
    tasks,          \* the event loop's request handlers: id -> where each one is
    log             \* history: the FileManager saves made, the requests sent to arXiv

vars == <<config, groq_client, github_client, notes, summaries, references, saved,
          clock, last, dispatched, answered, raisedBefore, invoked, arxiv_client, tasks, log>>

(***************************************************************************)
(* Bounds of the model.                                                    *)
(***************************************************************************)
MaxTitleLen == 3
MaxTagLen == 3
MaxTags == 1
MaxBodyLen == 2
MaxQueryLen == 1
MaxNoteSaves == 1
MaxStoreTitleLen == 1
MaxStoreBodyLen == 1
MaxStoreTags == 1
MaxStoreSaves == 2
MaxCalls == 2
MaxRequests == 2
MaxFileSaves == 2
MaxSanitizeLen == 1
MaxSummarySaves == 1
MaxTasks == 2
MaxDelay == 2
MaxOversleep == 1
MaxTime == 4
MaxEntries == 3
MaxLinks == 2
MaxWords == 2
MaxCallers == 2

(***************************************************************************)
(* Text: str methods used by the code.                                     *)
(***************************************************************************)
\* All texts over alphabet A of length at most n.
Texts(A, n) == UNION {[1..k -> A] : k \in 0..n}

RECURSIVE Join(_, _)
\* sep.join(parts)
Join(parts, sep) ==
    IF parts = <<>> THEN <<>>
    ELSE IF Len(parts) = 1 THEN parts[1]
    ELSE parts[1] \o sep \o Join(Tail(parts), sep)

\* s[i:] with i counted from 1
From(s, i) == SubSeq(s, i, Len(s))

\* s.startswith(p)
StartsWith(s, p) == Len(p) <= Len(s) /\ SubSeq(s, 1, Len(p)) = p

RECURSIVE FindFrom(_, _, _)
\* s.find(p, i - 1) + 1: the first index >= i at which p occurs in s; 0 when none
FindFrom(s, p, i) ==
    IF i + Len(p) - 1 > Len(s) THEN 0
    ELSE IF \A k \in 1..Len(p) : s[i + k - 1] = p[k] THEN i
    ELSE FindFrom(s, p, i + 1)

\* s.find(p), counted from 1; 0 when p does not occur
Find(s, p) == FindFrom(s, p, 1)

\* p in s
Contains(s, p) == Find(s, p) # 0

\* the parts around an occurrence of a separator of length n at index i
SplitAt(s, i, n) ==
    IF i = 0 THEN <<s>> ELSE <<SubSeq(s, 1, i - 1), From(s, i + n)>>

\* s.split(sep, 1): one or two parts
SplitOnce(s, sep) == SplitAt(s, Find(s, sep), Len(sep))

RECURSIVE Split(_, _)
\* s.split(sep) for a non-empty sep
SplitRest(parts, sep) ==
    IF Len(parts) = 1 THEN parts ELSE <<parts[1]>> \o Split(parts[2], sep)

Split(s, sep) == SplitRest(SplitOnce(s, sep), sep)

Whitespace == {" ", "\n", "\t", "\r"}

RECURSIVE LStrip(_)
LStrip(s) == IF s # <<>> /\ Head(s) \in Whitespace THEN LStrip(Tail(s)) ELSE s

RECURSIVE RStrip(_)
RStrip(s) ==
    IF s # <<>> /\ s[Len(s)] \in Whitespace THEN RStrip(SubSeq(s, 1, Len(s) - 1)) ELSE s

\* s.strip()
Strip(s) == RStrip(LStrip(s))

LowerChar(c) ==
    CASE c = "A" -> "a"
      [] c = "B" -> "b"
      [] OTHER -> c

\* s.lower()
Lower(s) == [i \in 1..Len(s) |-> LowerChar(s[i])]

RECURSIVE WhitespaceSplit(_)
\* s.split(): the maximal runs of non-whitespace characters
WhitespaceSplit(s) ==
    LET t == LStrip(s)
        ends == {i \in 1..Len(t) : t[i] \in Whitespace}
        e == IF ends = {} THEN Len(t) + 1 ELSE CHOOSE i \in ends : \A j \in ends : i <= j
    IN IF t = <<>> THEN <<>>
       ELSE <<SubSeq(t, 1, e - 1)>> \o WhitespaceSplit(From(t, e))

(***************************************************************************)
(* JSON as the json module encodes and decodes it, for the values the      *)
(* store writes into a note header: a string, a list of strings, a dict of *)
(* string to string.  A decoded value is tagged with its kind.             *)
(***************************************************************************)
JStr(s) == [kind |-> "str", str |-> s, items |-> <<>>, pairs |-> <<>>]
JList(items) == [kind |-> "list", str |-> <<>>, items |-> items, pairs |-> <<>>]
JDict(pairs) == [kind |-> "dict", str |-> <<>>, items |-> <<>>, pairs |-> pairs]

\* the escape json.dumps writes for one character of a string
EscapeChar(c) ==
    CASE c = "\"" -> <<"\\", "\"">>
      [] c = "\\" -> <<"\\", "\\">>
      [] c = "\n" -> <<"\\", "n">>
      [] c = "\t" -> <<"\\", "t">>
      [] c = "\r" -> <<"\\", "r">>
      [] OTHER -> <<c>>

RECURSIVE EscapeAll(_)
EscapeAll(s) == IF s = <<>> THEN <<>> ELSE EscapeChar(Head(s)) \o EscapeAll(Tail(s))

\* json.dumps(s) for a str
Quote(s) == <<"\"">> \o EscapeAll(s) \o <<"\"">>

\* json.dumps(value), with the default separators ", " and ": "
JsonDumps(v) ==
    CASE v.kind = "str" -> Quote(v.str)
      [] v.kind = "list" ->
           <<"[">> \o Join([i \in 1..Len(v.items) |-> Quote(v.items[i])], <<",", " ">>)
                   \o <<"]">>
      [] v.kind = "dict" ->
           <<"{">> \o Join([i \in 1..Len(v.pairs) |->
                               Quote(v.pairs[i][1]) \o <<":", " ">> \o Quote(v.pairs[i][2])],
                           <<",", " ">>)
                   \o <<"}">>

JsonFail == [ok |-> FALSE, val |-> <<>>, next |-> 0]

\* the character an escape sequence \c decodes to; "" when the decoder rejects it
Unescape(c) ==
    CASE c = "\"" -> "\""
      [] c = "\\" -> "\\"
      [] c = "/" -> "/"
      [] c = "n" -> "\n"
      [] c = "t" -> "\t"
      [] c = "r" -> "\r"
      [] OTHER -> ""

RECURSIVE ScanString(_, _, _)
\* py_scanstring from the character after the opening quote: the decoded string
\* and the index after the closing quote.  A raw control character is an error
\* (strict mode), so is an unterminated string.
ScanString(s, i, acc) ==
    IF i > Len(s) THEN JsonFail
    ELSE IF s[i] = "\"" THEN [ok |-> TRUE, val |-> acc, next |-> i + 1]
    ELSE IF s[i] = "\\" THEN
        IF i + 1 > Len(s) \/ Unescape(s[i + 1]) = "" THEN JsonFail
        ELSE ScanString(s, i + 2, Append(acc, Unescape(s[i + 1])))
    ELSE IF s[i] \in {"\n", "\t", "\r"} THEN JsonFail
    ELSE ScanString(s, i + 1, Append(acc, s[i]))

RECURSIVE SkipWs(_, _)
SkipWs(s, i) == IF i <= Len(s) /\ s[i] \in Whitespace THEN SkipWs(s, i + 1) ELSE i

RECURSIVE ScanArray(_, _, _)
\* JSONArray after an element and its whitespace: "]" ends it, "," goes on
ArrayNext(s, j, acc) ==
    IF j > Len(s) THEN JsonFail
    ELSE IF s[j] = "]" THEN [ok |-> TRUE, val |-> acc, next |-> j + 1]
    ELSE IF s[j] = "," THEN ScanArray(s, SkipWs(s, j + 1), acc)
    ELSE JsonFail

AfterElement(s, e, acc) ==
    IF ~e.ok THEN JsonFail ELSE ArrayNext(s, SkipWs(s, e.next), Append(acc, e.val))

\* JSONArray after "[" and its whitespace, at the start of an element
ScanArray(s, i, acc) ==
    IF i > Len(s) \/ s[i] # "\"" THEN JsonFail
    ELSE AfterElement(s, ScanString(s, i + 1, <<>>), acc)

RECURSIVE ScanObject(_, _, _)
\* JSONObject after a member and its whitespace: "}" ends it, "," goes on
ObjectNext(s, j, acc) ==
    IF j > Len(s) THEN JsonFail
    ELSE IF s[j] = "}" THEN [ok |-> TRUE, val |-> acc, next |-> j + 1]
    ELSE IF s[j] = "," THEN ScanObject(s, SkipWs(s, j + 1), acc)
    ELSE JsonFail

AfterMember(s, v, key, acc) ==
    IF ~v.ok THEN JsonFail
    ELSE ObjectNext(s, SkipWs(s, v.next), Append(acc, <<key, v.val>>))

MemberValue(s, vstart, key, acc) ==
    IF vstart > Len(s) \/ s[vstart] # "\"" THEN JsonFail
    ELSE AfterMember(s, ScanString(s, vstart + 1, <<>>), key, acc)

Colon(s, c, key, acc) ==
    IF c > Len(s) \/ s[c] # ":" THEN JsonFail
    ELSE MemberValue(s, SkipWs(s, c + 1), key, acc)

AfterKey(s, k, acc) ==
    IF ~k.ok THEN JsonFail ELSE Colon(s, SkipWs(s, k.next), k.val, acc)

\* JSONObject after "{" and its whitespace, at the start of a key
ScanObject(s, i, acc) ==
    IF i > Len(s) \/ s[i] # "\"" THEN JsonFail
    ELSE AfterKey(s, ScanString(s, i + 1, <<>>), acc)

\* a scanned str, list or dict, tagged with its kind
TagStr(r) == IF r.ok THEN [ok |-> TRUE, val |-> JStr(r.val), next |-> r.next] ELSE JsonFail
TagList(r) == IF r.ok THEN [ok |-> TRUE, val |-> JList(r.val), next |-> r.next] ELSE JsonFail
TagDict(r) == IF r.ok THEN [ok |-> TRUE, val |-> JDict(r.val), next |-> r.next] ELSE JsonFail

ArrayBody(s, j) ==
    IF j <= Len(s) /\ s[j] = "]" THEN [ok |-> TRUE, val |-> JList(<<>>), next |-> j + 1]
    ELSE TagList(ScanArray(s, j, <<>>))

ObjectBody(s, j) ==
    IF j <= Len(s) /\ s[j] = "}" THEN [ok |-> TRUE, val |-> JDict(<<>>), next |-> j + 1]
    ELSE TagDict(ScanObject(s, j, <<>>))

\* scan_once at index i: [ok, val (tagged), next]
ScanValue(s, i) ==
    IF i > Len(s) THEN JsonFail
    ELSE IF s[i] = "\"" THEN TagStr(ScanString(s, i + 1, <<>>))
    ELSE IF s[i] = "[" THEN ArrayBody(s, SkipWs(s, i + 1))
    ELSE IF s[i] = "{" THEN ObjectBody(s, SkipWs(s, i + 1))
    ELSE JsonFail

\* the value scanned, if nothing but whitespace follows it
Whole(s, r) ==
    IF r.ok /\ SkipWs(s, r.next) = Len(s) + 1 THEN [ok |-> TRUE, val |-> r.val]
    ELSE [ok |-> FALSE, val |-> JStr(<<>>)]

\* json.loads(s): [ok |-> FALSE] stands for JSONDecodeError.  Text after the
\* value other than whitespace is an error ("Extra data").
JsonLoads(s) == Whole(s, ScanValue(s, SkipWs(s, 1)))

(***************************************************************************)
(* FileManager: the local store.                                           *)
(***************************************************************************)
FilenameLimit == 100

InvalidChars == {"<", ">", ":", "\"", "/", "\\", "|", "?", "*"}

Min(a, b) == IF a <= b THEN a ELSE b

\* a slice that would keep the whole string
NoTruncate(s, n) == s

Truncate(s, n) == SubSeq(s, 1, Min(Len(s), n))

\* FileManager._sanitize_filename
SanitizeFilename(filename) ==
    Truncate(Join(WhitespaceSplit([i \in 1..Len(filename) |->
                                      IF filename[i] \in InvalidChars THEN "_"
                                      ELSE filename[i]]),
                  <<"_">>),
             FilenameLimit)

Digits == <<"0", "1", "2", "3", "4", "5", "6", "7", "8", "9">>

\* datetime.now().isoformat() at tick t: a date with "-", "T", a time with ":"
IsoFormat(t) == <<"2", "6", "-", "1", "1", "-", "0", "4", "T", "0", ":">> \o <<Digits[(t % 10) + 1]>>

K_title == <<"t", "i", "t", "l", "e">>
K_created == <<"c", "r", "e", "a", "t", "e", "d">>
K_tags == <<"t", "a", "g", "s">>
K_metadata == <<"m", "e", "t", "a", "d", "a", "t", "a">>
K_content == <<"c", "o", "n", "t", "e", "n", "t">>
Untitled == <<"U", "n", "t", "i", "t", "l", "e", "d">>
Dashes == <<"-", "-", "-">>
MdSuffix == <<".", "m", "d">>

\* the line save_notes writes for one item of note_data
HeaderLine(key, value) == key \o <<":", " ">> \o JsonDumps(value) \o <<"\n">>

\* save_notes: the text written to the note file (frontmatter + content)
NoteFileText(title, content, tags, metadata, now) ==
    LET frontmatter ==
            Dashes \o <<"\n">>
            \o HeaderLine(K_title, JStr(title))
            \o HeaderLine(K_created, JStr(IsoFormat(now)))
            \o HeaderLine(K_tags, JList(tags))
            \o HeaderLine(K_metadata, JDict(metadata))
            \o Dashes \o <<"\n", "\n">>
    IN frontmatter \o content

\* save_notes: the name of the file written
NoteFileName(title) == SanitizeFilename(title) \o MdSuffix

\* a write that would keep the file already there
KeepFirstFile(dir, name, text) ==
    [f \in (DOMAIN dir) \cup {name} |-> IF f \in DOMAIN dir THEN dir[f] ELSE text]

\* a directory after open(file_path, 'w').write(text)
WriteFile(dir, name, text) ==
    [f \in (DOMAIN dir) \cup {name} |-> IF f = name THEN text ELSE dir[f]]

\* d[key] = value
SetKey(d, key, value) ==
    [k \in (DOMAIN d) \cup {key} |-> IF k = key THEN value ELSE d[k]]

\* try: json.loads(value) except JSONDecodeError: value
Decoded(value, decoded) == IF decoded.ok THEN decoded.val ELSE JStr(value)

Decode(value) == Decoded(value, JsonLoads(value))

\* one frontmatter line, split at its first ':': the key/value pair it adds, if it
\* holds a ':'
AddLine(frontmatter, kv) ==
    IF Len(kv) = 2 THEN SetKey(frontmatter, Strip(kv[1]), Decode(Strip(kv[2])))
    ELSE frontmatter

RECURSIVE ParseLines(_, _)
ParseLines(lines, frontmatter) ==
    IF lines = <<>> THEN frontmatter
    ELSE ParseLines(Tail(lines), AddLine(frontmatter, SplitOnce(Head(lines), <<":">>)))

\* _parse_note_file when the header block is not found
Fallback(content) ==
    [k \in {K_content, K_title} |->
        IF k = K_content THEN JStr(content) ELSE JStr(Untitled)]

\* _parse_note_file after content[3:].split('---', 1)
ParseParts(content, parts) ==
    IF Len(parts) = 2
    THEN SetKey(ParseLines(Split(Strip(parts[1]), <<"\n">>), <<>>),
                K_content, JStr(Strip(parts[2])))
    ELSE Fallback(content)

\* FileManager._parse_note_file: the dict returned, key -> tagged value
ParseNoteFile(content) ==
    IF StartsWith(content, Dashes)
    THEN ParseParts(content, SplitOnce(From(content, 4), Dashes))
    ELSE Fallback(content)

\* dict.get(key, default)
Get(d, key, default) == IF key \in DOMAIN d THEN d[key] ELSE default

\* what "for tag in note_data['tags']" iterates over: the items of a list, the
\* characters of a str, the keys of a dict
Iterate(v) ==
    CASE v.kind = "list" -> {v.items[i] : i \in 1..Len(v.items)}
      [] v.kind = "str" -> {<<v.str[i]>> : i \in 1..Len(v.str)}
      [] v.kind = "dict" -> {v.pairs[i][1] : i \in 1..Len(v.pairs)}

\* bool(value) for a decoded value
Truthy(v) ==
    CASE v.kind = "list" -> v.items # <<>>
      [] v.kind = "str" -> v.str # <<>>
      [] v.kind = "dict" -> v.pairs # <<>>

\* search_notes, the body of the loop for one note file: whether it is appended.
\* A content or title that is not a str makes .lower() raise, and the except
\* clause skips the file.
NoteMatches(note_data, query, search_content, search_tags) ==
    LET query_lower == Lower(query)
        content == Get(note_data, K_content, JStr(<<>>))
        title == Get(note_data, K_title, JStr(<<>>))
        raises == (search_content /\ content.kind # "str") \/ title.kind # "str"
        in_content == search_content /\ Contains(Lower(content.str), query_lower)
        in_tags == /\ search_tags
                   /\ K_tags \in DOMAIN note_data
                   /\ Truthy(note_data[K_tags])
                   /\ \E tag \in Iterate(note_data[K_tags]) : Contains(Lower(tag), query_lower)
        in_title == Contains(Lower(title.str), query_lower)
    IN ~raises /\ (in_content \/ in_tags \/ in_title)

\* FileManager.search_notes: the notes returned (glob order is not specified, so
\* the result is the set of its items)
SearchNotes(dir, query, search_content, search_tags) ==
    LET parsed == {[file_path |-> f, note_data |-> ParseNoteFile(dir[f])] : f \in DOMAIN dir}
    IN {r \in parsed : NoteMatches(r.note_data, query, search_content, search_tags)}

(***************************************************************************)
(* The store on its own: save_notes followed by reading the file back.     *)
(***************************************************************************)
TitleAlphabet == {"A", "-", ":"}
TagAlphabet == {"B", "-"}
BodyAlphabet == {" ", "a", "-"}

NoteTitles == Texts(TitleAlphabet, MaxTitleLen)
NoteTagLists == UNION {[1..k -> Texts(TagAlphabet, MaxTagLen)] : k \in 0..MaxTags}
NoteBodies == Texts(BodyAlphabet, MaxBodyLen)
NoteMetadata == {<<>>, << <<K_title, Dashes>> >>}

NoOp == [op |-> "none"]

\* ArXivClient.__init__; ResearchTools constructs it with the default delay
DefaultDelay == 1
ArXivClient(delay_seconds) ==
    [delay_seconds |-> delay_seconds, last_request_time |-> 0]

InitCommon ==
    /\ config = [groq_api_key |-> FALSE, github_token |-> FALSE,
                 github_username |-> FALSE, github_repo |-> FALSE]
    /\ groq_client = FALSE
    /\ github_client = FALSE
    /\ notes = <<>>
    /\ summaries = <<>>
    /\ references = <<>>
    /\ saved = <<>>
    /\ clock = 0
    /\ last = NoOp
    /\ dispatched = 0
    /\ answered = 0
    /\ raisedBefore = FALSE
    /\ invoked = 0
    /\ arxiv_client = ArXivClient(DefaultDelay)
    /\ tasks = <<>>
    /\ log = <<>>

\* FileManager.save_notes(title, content, tags, metadata)
SaveNotes(title, content, tags, metadata) ==
    LET name == NoteFileName(title)
    IN /\ notes' = WriteFile(notes, name, NoteFileText(title, content, tags, metadata, clock))
       /\ saved' = WriteFile(saved, name, [title |-> title, content |-> content,
                                           tags |-> tags, metadata |-> metadata])
       /\ clock' = clock + 1
       /\ last' = [op |-> "save_notes", file_path |-> name]
       /\ UNCHANGED <<arxiv_client, tasks>>
       /\ UNCHANGED <<config, groq_client, github_client, summaries, references,
                      dispatched, answered, raisedBefore, invoked>>

\* reading a note file back through _parse_note_file
ReadNote(f) ==
    /\ last' = [op |-> "parse_note", file_path |-> f, note_data |-> ParseNoteFile(notes[f])]
    /\ UNCHANGED <<arxiv_client, tasks, log>>
    /\ UNCHANGED <<config, groq_client, github_client, notes, summaries, references, saved,
                   clock, dispatched, answered, raisedBefore, invoked>>

NoteSave ==
    /\ clock < MaxNoteSaves
    /\ UNCHANGED log
    /\ \E title \in NoteTitles, content \in NoteBodies,
          tags \in NoteTagLists, metadata \in NoteMetadata :
            SaveNotes(title, content, tags, metadata)

NoteRead == \E f \in DOMAIN notes : ReadNote(f)

InitNote == InitCommon

NextNote == NoteSave \/ NoteRead

SpecNote == InitNote /\ [][NextNote]_vars

\* C9: note header round-trip.  Parsing the file written by save_notes with
\* _parse_note_file yields the title and the tag list that were saved, for every
\* title, body, tag list and metadata bag, including text that holds ':' or the
\* '---' delimiter.
C9_HeaderRoundTrip ==
    last.op = "parse_note" =>
        LET note_data == last.note_data
            note == saved[last.file_path]
        IN /\ K_title \in DOMAIN note_data
           /\ note_data[K_title] = JStr(note.title)
           /\ K_tags \in DOMAIN note_data
           /\ note_data[K_tags] = JList(note.tags)

(***************************************************************************)
(* The store holding several notes: save_notes and search_notes.           *)
(***************************************************************************)
StoreTitles == Texts({"A"}, MaxStoreTitleLen) \cup {Dashes}
StoreBodies == Texts({" ", "a"}, MaxStoreBodyLen)
StoreTagLists == UNION {[1..k -> {<<"a">>}] : k \in 0..MaxStoreTags}
StoreQueries == Texts({"A", "-", " "}, MaxQueryLen)

\* FileManager.search_notes(query, search_content, search_tags)
SearchNotesCall(query, search_content, search_tags) ==
    /\ last' = [op |-> "search_notes", query |-> query,
                search_content |-> search_content, search_tags |-> search_tags,
                results |-> SearchNotes(notes, query, search_content, search_tags)]
    /\ UNCHANGED <<arxiv_client, tasks, log>>
    /\ UNCHANGED <<config, groq_client, github_client, notes, summaries, references, saved,
                   clock, dispatched, answered, raisedBefore, invoked>>

StoreSave ==
    /\ clock < MaxStoreSaves
    /\ UNCHANGED log
    /\ \E title \in StoreTitles, content \in StoreBodies, tags \in StoreTagLists :
            SaveNotes(title, content, tags, <<>>)

StoreSearch ==
    \E query \in StoreQueries, search_content \in BOOLEAN, search_tags \in BOOLEAN :
        SearchNotesCall(query, search_content, search_tags)

InitStore == InitCommon

NextStore == StoreSave \/ StoreSearch

SpecStore == InitStore /\ [][NextStore]_vars

\* the files of the stored notes that the query matches, from what was saved
Matching(query, search_content, search_tags) ==
    {f \in DOMAIN saved :
        \/ Contains(Lower(saved[f].title), Lower(query))
        \/ search_content /\ Contains(Lower(saved[f].content), Lower(query))
        \/ search_tags /\ \E i \in 1..Len(saved[f].tags) :
                             Contains(Lower(saved[f].tags[i]), Lower(query))}

\* C10: after any sequence of save_notes calls, search_notes returns exactly the
\* stored notes for which the query is a case-insensitive substring of the title,
\* or of the body when search_content is true, or of some tag when search_tags
\* is true.
C10_SearchExact ==
    last.op = "search_notes" =>
        {r.file_path : r \in last.results}
            = Matching(last.query, last.search_content, last.search_tags)

(***************************************************************************)
(* ResearchTools: construction, the tool catalog and the dispatcher.       *)
(* A configuration entry is modelled by its truth value, which is all that *)
(* __init__ reads of a credential.                                         *)
(***************************************************************************)
ArXivTools == <<"search_arxiv", "fetch_paper", "download_paper_content">>
GroqTools == <<"summarize_paper", "extract_key_points", "create_structured_summary",
               "generate_citation", "compare_papers">>
FileTools == <<"save_notes", "save_summary", "save_reference", "search_local_notes",
               "list_research_files", "organize_by_tags", "export_research_data",
               "create_research_index">>
GitHubTools == <<"upload_to_github", "upload_directory_to_github", "create_github_summary",
                 "sync_with_github", "list_github_contents", "get_repository_info">>

Range(seq) == {seq[i] : i \in 1..Len(seq)}

Configs == [groq_api_key : BOOLEAN, github_token : BOOLEAN,
            github_username : BOOLEAN, github_repo : BOOLEAN]

\* ResearchTools.__init__: whether a GroqClient is constructed
ConstructsGroq(c) == c.groq_api_key

\* a GitHub client constructed as soon as a token is supplied
ConstructsWithToken(c) == c.github_token

\* ResearchTools.__init__: whether a GitHubClient is constructed
ConstructsGitHub(c) == c.github_token /\ c.github_username /\ c.github_repo

\* ResearchTools.get_tools: the names of the Tool objects, in list order
GetTools(groq, github) ==
    ArXivTools
    \o (IF groq THEN GroqTools ELSE <<>>)
    \o FileTools
    \o (IF github THEN GitHubTools ELSE <<>>)

\* the text of a TextContent: plain text (a message and the values formatted
\* into it) or the output of json.dumps(body, indent=2)
PlainText(msg, values) == [enc |-> "plain", msg |-> msg, values |-> values]
JsonText(body) == [enc |-> "json", body |-> body]

TextContent(text) == [type |-> "text", text |-> text]

\* what a handler did: returned a CallToolResult holding one text, or raised an
\* exception <<type, message>>.  write is the file the handler wrote, if any.
NoWrite == [dir |-> "none"]
Returns(path, text, write) ==
    [raised |-> FALSE, exc |-> <<>>, path |-> path, text |-> text, write |-> write]
Raises(type, message) ==
    [raised |-> TRUE, exc |-> <<type, message>>, path |-> "raised",
     text |-> PlainText("", <<>>), write |-> NoWrite]

\* args[key] on a missing key
KeyError(key) == Raises("KeyError", key)

GroqUnavailable ==
    Returns("disabled",
            PlainText("Groq client not available. Please configure GROQ_API_KEY.", <<>>),
            NoWrite)
\* a repository-backed tool naming the LLM key as the missing configuration
WrongUnavailable == GroqUnavailable

GitHubUnavailable ==
    Returns("disabled",
            PlainText("GitHub client not available. Please configure GitHub settings.", <<>>),
            NoWrite)

\* the outcomes of one outbound call of an adapter: data, nothing found, failure
Outcomes == {"ok", "empty", "fail"}

\* validate_arxiv_id, on the identifiers the model sends: the new-style pattern
\* \d{4}\.\d{4,5}(v\d+)? after the "arXiv:" prefix is removed
IsDigit(c) == c \in Range(Digits)

RECURSIVE AllDigits(_)
AllDigits(s) == s = <<>> \/ (IsDigit(Head(s)) /\ AllDigits(Tail(s)))

\* $ of a pattern: the end of the string, or the newline that ends it
AtEnd(rest) == rest = <<>> \/ rest = <<"\n">>

\* (v\d+)?$
VersionSuffix(rest) ==
    \/ AtEnd(rest)
    \/ /\ Len(rest) >= 2
       /\ rest[1] = "v"
       /\ \E n \in 1..(Len(rest) - 1) :
             AllDigits(SubSeq(rest, 2, 1 + n)) /\ AtEnd(From(rest, 2 + n))

\* ^\d{4}\.\d{4,5}(v\d+)?$
NewFormat(id) ==
    /\ Len(id) >= 9
    /\ AllDigits(SubSeq(id, 1, 4))
    /\ id[5] = "."
    /\ \E n \in {4, 5} :
          /\ Len(id) >= 5 + n
          /\ AllDigits(SubSeq(id, 6, 5 + n))
          /\ VersionSuffix(From(id, 6 + n))

LowerLetters ==
    {"a", "b", "c", "d", "e", "f", "g", "h", "i", "j", "k", "l", "m", "n", "o", "p", "q",
     "r", "s", "t", "u", "v", "w", "x", "y", "z"}
UpperLetters ==
    {"A", "B", "C", "D", "E", "F", "G", "H", "I", "J", "K", "L", "M", "N", "O", "P", "Q",
     "R", "S", "T", "U", "V", "W", "X", "Y", "Z"}

\* [a-z-]+(\.[A-Z]{2})? on the whole of a
ArchiveName(a) ==
    \E n \in {0, 3} :
        /\ Len(a) > n
        /\ \A i \in 1..(Len(a) - n) : a[i] \in LowerLetters \cup {"-"}
        /\ n = 3 => /\ a[Len(a) - 2] = "."
                    /\ a[Len(a) - 1] \in UpperLetters
                    /\ a[Len(a)] \in UpperLetters

\* a validation that knows the new format only
NoOldFormat(id) == FALSE

\* ^[a-z-]+(\.[A-Z]{2})?/\d{7}(v\d+)?$
OldFormat(id) ==
    \E i \in 1..Len(id) :
        /\ id[i] = "/"
        /\ ArchiveName(SubSeq(id, 1, i - 1))
        /\ Len(id) >= i + 7
        /\ AllDigits(SubSeq(id, i + 1, i + 7))
        /\ VersionSuffix(From(id, i + 8))

ArxivPrefix == <<"a", "r", "X", "i", "v", ":">>

\* str.replace(old, "") for the first occurrence onwards
RECURSIVE Remove(_, _)
Remove(s, old) ==
    LET i == Find(s, old)
    IN IF i = 0 THEN s
       ELSE SubSeq(s, 1, i - 1) \o Remove(From(s, i + Len(old)), old)

UrlPrefix == <<"h", "t", "t", "p", ":", "/", "/", "a", "r", "x", "i", "v", ".", "o", "r", "g", "/", "a", "b", "s", "/">>

\* utils.validate_arxiv_id
ValidateArxivId(arxiv_id) ==
    LET clean_id == Remove(Remove(arxiv_id, ArxivPrefix), UrlPrefix)
    IN NewFormat(clean_id) \/ OldFormat(clean_id)

\* the result of _search_arxiv for the papers search_papers returned
SearchResult(query, papers) ==
    Returns("ok",
            JsonText([query |-> query, total_results |-> Len(papers), papers |-> papers]),
            NoWrite)

\* ResearchTools._search_arxiv
_search_arxiv(args, net) ==
    IF "query" \notin DOMAIN args THEN KeyError("query")
    ELSE IF net = "fail" THEN Raises("RequestException", "ArXiv API request failed")
    ELSE SearchResult(args.query, IF net = "ok" THEN <<"paper">> ELSE <<>>)

\* ResearchTools._fetch_paper
_fetch_paper(args, net) ==
    IF "arxiv_id" \notin DOMAIN args THEN KeyError("arxiv_id")
    ELSE IF ~ValidateArxivId(args.arxiv_id)
        THEN Returns("invalid_id", PlainText("Invalid ArXiv ID format: ", <<args.arxiv_id>>),
                     NoWrite)
    ELSE IF net = "fail" THEN Raises("RequestException", "ArXiv API request failed")
    ELSE IF net = "empty"
        THEN Returns("not_found", PlainText("Paper not found: ", <<args.arxiv_id>>), NoWrite)
    ELSE Returns("ok", JsonText([id |-> args.arxiv_id]), NoWrite)

\* ResearchTools._download_paper_content
_download_paper_content(args, net) ==
    IF "arxiv_id" \notin DOMAIN args THEN KeyError("arxiv_id")
    ELSE IF net = "fail" THEN Raises("RequestException", "ArXiv API request failed")
    ELSE IF net = "empty"
        THEN Returns("download_failed",
                     PlainText("Failed to download content for: ", <<args.arxiv_id>>), NoWrite)
    ELSE Returns("ok", PlainText("Title: ", <<args.arxiv_id>>), NoWrite)

\* ResearchTools._summarize_paper; GroqClient.summarize_paper re-raises a failure
_summarize_paper(args, net, groq) ==
    IF ~groq THEN GroqUnavailable
    ELSE IF "content" \notin DOMAIN args THEN KeyError("content")
    ELSE IF net = "fail" THEN Raises("Exception", "Groq request failed")
    ELSE Returns("ok", JsonText([summary |-> args.content]), NoWrite)

\* ResearchTools._extract_key_points; generate_key_points returns [] on a failure
_extract_key_points(args, net, groq) ==
    IF ~groq THEN GroqUnavailable
    ELSE IF "content" \notin DOMAIN args THEN KeyError("content")
    ELSE LET key_points == IF net = "ok" THEN <<"point">> ELSE <<>>
         IN Returns("ok", JsonText([key_points |-> key_points, count |-> Len(key_points)]),
                    NoWrite)

\* ResearchTools._create_structured_summary; the client returns {"error": ...} on
\* a failure
_create_structured_summary(args, net, groq) ==
    IF ~groq THEN GroqUnavailable
    ELSE IF "content" \notin DOMAIN args THEN KeyError("content")
    ELSE Returns("ok", JsonText(IF net = "fail" THEN [error |-> "Groq request failed"]
                                ELSE [summary |-> args.content]),
                 NoWrite)

\* dict.get(key, default) on a dict kept as a sequence of pairs
RECURSIVE PairGet(_, _, _)
PairGet(pairs, key, default) ==
    IF pairs = <<>> THEN default
    ELSE IF Head(pairs)[1] = key THEN Head(pairs)[2]
    ELSE PairGet(Tail(pairs), key, default)

K_id == <<"i", "d">>

\* ResearchTools._generate_citation: no check of groq_client before the arguments
\* are read; without a client the APA citation is made locally
_generate_citation(args, net, groq) ==
    IF "paper_metadata" \notin DOMAIN args THEN KeyError("paper_metadata")
    ELSE LET style == IF "style" \in DOMAIN args THEN args.style ELSE "apa"
             citation ==
                IF groq THEN (IF net = "fail" THEN "Error generating citation"
                              ELSE "citation by Groq")
                ELSE IF style = "apa" THEN "create_citation_apa"
                ELSE "Citation generation requires Groq API for this style"
         IN Returns("ok", JsonText([citation |-> citation, style |-> style,
                                    paper_id |-> PairGet(args.paper_metadata, K_id, <<>>)]),
                    NoWrite)

\* ResearchTools._compare_papers; the client returns {"error": ...} on a failure
_compare_papers(args, net, groq) ==
    IF ~groq THEN GroqUnavailable
    ELSE IF "papers_content" \notin DOMAIN args THEN KeyError("papers_content")
    ELSE Returns("ok", JsonText(IF net = "fail" THEN [error |-> "Groq request failed"]
                                ELSE [comparison |-> args.papers_content]),
                 NoWrite)

\* the file a handler writes: the directory, the file's name and its text; rec
\* is what was handed to save_notes
FileWrite(dir, name, text, rec) == [dir |-> dir, name |-> name, text |-> text, rec |-> rec]

SummaryJsonSuffix ==
    <<"_", "s", "u", "m", "m", "a", "r", "y", ".", "j", "s", "o", "n">>
SummaryMdSuffix == <<"_", "s", "u", "m", "m", "a", "r", "y", ".", "m", "d">>
ReferenceSuffix ==
    <<"_", "r", "e", "f", "e", "r", "e", "n", "c", "e", ".", "j", "s", "o", "n">>
K_saved == <<"s", "a", "v", "e", "d">>

\* d[key] = value on a dict kept as a sequence of pairs
RECURSIVE SetItem(_, _, _)
SetItem(pairs, key, value) ==
    IF pairs = <<>> THEN << <<key, value>> >>
    ELSE IF Head(pairs)[1] = key THEN << <<key, value>> >> \o Tail(pairs)
    ELSE <<Head(pairs)>> \o SetItem(Tail(pairs), key, value)

\* key in d, on a dict kept as a sequence of pairs
PairHas(pairs, key) == \E i \in 1..Len(pairs) : pairs[i][1] = key

\* json.dump(summary_data, f, indent=2, ensure_ascii=False) for a dict whose values
\* are strings and lists of strings
IndentedValue(v) ==
    IF v.kind = "str" THEN Quote(v.str)
    ELSE IF v.items = <<>> THEN <<"[", "]">>
    ELSE <<"[", "\n">>
         \o Join([i \in 1..Len(v.items) |-> <<" ", " ", " ", " ">> \o Quote(v.items[i])],
                 <<",", "\n">>)
         \o <<"\n", " ", " ", "]">>

JsonDumpIndent(pairs) ==
    IF pairs = <<>> THEN <<"{", "}">>
    ELSE <<"{", "\n">>
         \o Join([i \in 1..Len(pairs) |->
                     <<" ", " ">> \o Quote(pairs[i][1]) \o <<":", " ">>
                         \o IndentedValue(pairs[i][2])],
                 <<",", "\n">>)
         \o <<"\n", "}">>

K_summary == <<"s", "u", "m", "m", "a", "r", "y">>
K_authors == <<"a", "u", "t", "h", "o", "r", "s">>
K_published == <<"p", "u", "b", "l", "i", "s", "h", "e", "d">>
K_categories == <<"c", "a", "t", "e", "g", "o", "r", "i", "e", "s">>
K_key_points == <<"k", "e", "y", "_", "p", "o", "i", "n", "t", "s">>
SummaryHeading == <<"#", "#", " ", "S", "u", "m", "m", "a", "r", "y">>
KeyPointsHeading == <<"#", "#", " ", "K", "e", "y", " ", "P", "o", "i", "n", "t", "s">>
AuthorsLabel == <<"*", "*", "A", "u", "t", "h", "o", "r", "s", ":", "*", "*", " ">>
PublishedLabel == <<"*", "*", "P", "u", "b", "l", "i", "s", "h", "e", "d", ":", "*", "*", " ">>
CategoriesLabel == <<"*", "*", "C", "a", "t", "e", "g", "o", "r", "i", "e", "s", ":", "*", "*", " ">>

\* the keys _summary_to_markdown renders itself or leaves out
RenderedKeys == {K_title, K_authors, K_published, K_categories, K_summary, K_key_points,
                 K_created}

UpperChar(c) ==
    CASE c = "a" -> "A"
      [] c = "b" -> "B"
      [] OTHER -> c

\* str.title(), on the letters the model writes
TitleCase(s) ==
    [i \in 1..Len(s) |->
        IF i = 1 \/ s[i - 1] \notin {"a", "b", "A", "B"} THEN UpperChar(s[i])
        ELSE LowerChar(s[i])]

\* key.replace('_', ' ')
Spaced(key) == [i \in 1..Len(key) |-> IF key[i] = "_" THEN " " ELSE key[i]]

\* a rendering that would leave every such section out
NoSection(pairs, key, lines) == <<>>

\* the lines _summary_to_markdown appends for one key it renders, when present
SectionLines(pairs, key, lines) == IF PairHas(pairs, key) THEN lines ELSE <<>>

\* the "Other sections" loop of _summary_to_markdown, over the items in dict order
RECURSIVE OtherSections(_)
OtherSections(pairs) ==
    IF pairs = <<>> THEN <<>>
    ELSE (IF Head(pairs)[1] \notin RenderedKeys /\ Head(pairs)[2].kind = "str"
             /\ Strip(Head(pairs)[2].str) # <<>>
          THEN << <<"#", "#", " ">> \o TitleCase(Spaced(Head(pairs)[1])), <<>>,
                  Head(pairs)[2].str, <<>> >>
          ELSE <<>>)
         \o OtherSections(Tail(pairs))

\* FileManager._summary_to_markdown
SummaryToMarkdown(summary_data) ==
    LET text(key) == PairGet(summary_data, key, JStr(<<>>)).str
        list(key) == PairGet(summary_data, key, JList(<<>>)).items
    IN Join(SectionLines(summary_data, K_title, << <<"#", " ">> \o text(K_title), <<>> >>)
            \o SectionLines(summary_data, K_authors,
                            <<AuthorsLabel \o Join(list(K_authors), <<",", " ">>)>>)
            \o SectionLines(summary_data, K_published,
                            <<PublishedLabel \o text(K_published)>>)
            \o SectionLines(summary_data, K_categories,
                            <<CategoriesLabel \o Join(list(K_categories), <<",", " ">>)>>)
            \o << <<>> >>
            \o SectionLines(summary_data, K_summary,
                            <<SummaryHeading, <<>>, text(K_summary), <<>> >>)
            \o SectionLines(summary_data, K_key_points,
                            <<KeyPointsHeading, <<>> >>
                            \o [i \in 1..Len(list(K_key_points)) |->
                                   <<"-", " ">> \o list(K_key_points)[i]]
                            \o << <<>> >>)
            \o OtherSections(summary_data),
            <<"\n">>)

\* a save_summary that would write JSON for whatever format it is given
SaveAnyFormat(paper_id, summary_data, format_type, now) ==
    [raised |-> FALSE, name |-> SanitizeFilename(paper_id) \o SummaryJsonSuffix,
     text |-> JsonDumpIndent(SetItem(summary_data, K_created, JStr(IsoFormat(now))))]

\* FileManager.save_summary: the file it writes, or the ValueError of an
\* unsupported format, raised before anything is written
SaveSummary(paper_id, summary_data, format_type, now) ==
    IF format_type = "json"
    THEN [raised |-> FALSE, name |-> SanitizeFilename(paper_id) \o SummaryJsonSuffix,
          text |-> JsonDumpIndent(SetItem(summary_data, K_created, JStr(IsoFormat(now))))]
    ELSE IF format_type = "markdown"
    THEN [raised |-> FALSE, name |-> SanitizeFilename(paper_id) \o SummaryMdSuffix,
          text |-> SummaryToMarkdown(summary_data)]
    ELSE [raised |-> TRUE, name |-> <<>>, text |-> <<>>]

\* FileManager.save_reference: the file it writes
SaveReference(paper_id, reference_data, now) ==
    [raised |-> FALSE, name |-> SanitizeFilename(paper_id) \o ReferenceSuffix,
     text |-> JsonDumpIndent(SetItem(reference_data, K_saved, JStr(IsoFormat(now))))]

\* ResearchTools._save_notes with FileManager.save_notes
_save_notes(args, now) ==
    IF "title" \notin DOMAIN args THEN KeyError("title")
    ELSE IF "content" \notin DOMAIN args THEN KeyError("content")
    ELSE LET tags == IF "tags" \in DOMAIN args THEN args.tags ELSE <<>>
             name == NoteFileName(args.title)
         IN Returns("ok",
                    JsonText([saved |-> TRUE, file_path |-> name, title |-> args.title,
                              tags |-> tags]),
                    FileWrite("notes", name,
                              NoteFileText(args.title, args.content, tags, <<>>, now),
                              [title |-> args.title, content |-> args.content,
                               tags |-> tags, metadata |-> <<>>]))

\* ResearchTools._save_summary with FileManager.save_summary
SummarySaved(args, format_type, saving) ==
    IF saving.raised THEN Raises("ValueError", "Unsupported format type")
    ELSE Returns("ok",
                 JsonText([saved |-> TRUE, file_path |-> saving.name,
                           paper_id |-> args.paper_id, format |-> format_type]),
                 FileWrite("summaries", saving.name, saving.text, <<>>))

_save_summary(args, now) ==
    IF "paper_id" \notin DOMAIN args THEN KeyError("paper_id")
    ELSE IF "summary_data" \notin DOMAIN args THEN KeyError("summary_data")
    ELSE IF "format" \in DOMAIN args
    THEN SummarySaved(args, args.format,
                      SaveSummary(args.paper_id, args.summary_data, args.format, now))
    ELSE SummarySaved(args, "json",
                      SaveSummary(args.paper_id, args.summary_data, "json", now))

\* ResearchTools._save_reference with FileManager.save_reference
ReferenceSaved(args, saving) ==
    Returns("ok",
            JsonText([saved |-> TRUE, file_path |-> saving.name,
                      paper_id |-> args.paper_id]),
            FileWrite("references", saving.name, saving.text, <<>>))

_save_reference(args, now) ==
    IF "paper_id" \notin DOMAIN args THEN KeyError("paper_id")
    ELSE IF "reference_data" \notin DOMAIN args THEN KeyError("reference_data")
    ELSE ReferenceSaved(args, SaveReference(args.paper_id, args.reference_data, now))

\* ResearchTools._search_local_notes with FileManager.search_notes
_search_local_notes(args, dir) ==
    IF "query" \notin DOMAIN args THEN KeyError("query")
    ELSE LET search_content ==
                 IF "search_content" \in DOMAIN args THEN args.search_content ELSE TRUE
             search_tags == IF "search_tags" \in DOMAIN args THEN args.search_tags ELSE TRUE
             results == SearchNotes(dir, args.query, search_content, search_tags)
         IN Returns("ok",
                    JsonText([query |-> args.query, results_count |-> Cardinality(results),
                              results |-> results]),
                    NoWrite)

\* the characters of the file names the model writes, in code point order
CodePoints ==
    <<"-", ".", "0", "1", "2", "3", "A", "_", "a", "c", "d", "e", "f", "j", "m", "n", "o",
      "r", "s", "u", "y">>
Ord(c) == CHOOSE i \in 1..Len(CodePoints) : CodePoints[i] = c

\* a < b on str
Less(a, b) ==
    LET differ == {i \in 1..Min(Len(a), Len(b)) : a[i] # b[i]}
    IN IF differ = {} THEN Len(a) < Len(b)
       ELSE \E k \in differ : (\A i \in differ : k <= i) /\ Ord(a[k]) < Ord(b[k])

\* a listing that would come in descending order
RECURSIVE Descending(_)
Descending(files) ==
    IF files = {} THEN <<>>
    ELSE LET first == CHOOSE x \in files : \A y \in files \ {x} : Less(y, x)
         IN <<first>> \o Descending(files \ {first})

\* sorted(files)
RECURSIVE Sorted(_)
Sorted(files) ==
    IF files = {} THEN <<>>
    ELSE LET first == CHOOSE x \in files : \A y \in files \ {x} : Less(x, y)
         IN <<first>> \o Sorted(files \ {first})

\* FileManager.list_files(directory) over the three directories
ListFiles(directory, n, s, r) ==
    LET directories_map == [notes |-> Sorted(DOMAIN n), summaries |-> Sorted(DOMAIN s),
                            references |-> Sorted(DOMAIN r)]
    IN IF directory = "all" THEN [raised |-> FALSE, result |-> directories_map]
       ELSE IF directory \in DOMAIN directories_map
       THEN [raised |-> FALSE, result |-> [d \in {directory} |-> directories_map[d]]]
       ELSE [raised |-> TRUE, result |-> <<>>]

\* ResearchTools._list_research_files with FileManager.list_files
FilesListed(listing) ==
    IF listing.raised THEN Raises("ValueError", "Unknown directory")
    ELSE Returns("ok", JsonText(listing.result), NoWrite)

_list_research_files(args, n, s, r) ==
    IF "directory" \in DOMAIN args THEN FilesListed(ListFiles(args.directory, n, s, r))
    ELSE FilesListed(ListFiles("all", n, s, r))

\* FileManager.organize_by_tags: tag -> the note files that carry it
OrganizeByTags(dir) ==
    LET tagsOf(f) == Iterate(Get(ParseNoteFile(dir[f]), K_tags, JList(<<>>)))
        all == UNION {tagsOf(f) : f \in DOMAIN dir}
    IN [tag \in all |-> {f \in DOMAIN dir : tag \in tagsOf(f)}]

\* ResearchTools._organize_by_tags
_organize_by_tags(args, dir) ==
    LET tag_map == OrganizeByTags(dir)
    IN Returns("ok",
               JsonText([total_tags |-> Cardinality(DOMAIN tag_map),
                         tag_organization |-> tag_map]),
               NoWrite)

\* ResearchTools._export_research_data with FileManager.export_research_data; the
\* archive is written outside the three research directories
_export_research_data(args) ==
    LET format_type == IF "format" \in DOMAIN args THEN args.format ELSE "zip"
    IN IF format_type \in {"zip", "folder"}
       THEN Returns("ok", JsonText([exported |-> TRUE, format |-> format_type]), NoWrite)
       ELSE Raises("ValueError", "Unsupported export format")

\* ResearchTools._create_research_index with utils.create_research_index: the
\* notes, the JSON summaries and the references it lists
EndsWith(s, p) == Len(p) <= Len(s) /\ SubSeq(s, Len(s) - Len(p) + 1, Len(s)) = p

JsonSuffix == <<".", "j", "s", "o", "n">>

\* utils.extract_frontmatter: the header block as a dict, {} when there is none
Unquoted(value) ==
    IF StartsWith(value, <<"\"">>) /\ EndsWith(value, <<"\"">>)
    THEN SubSeq(value, 2, Len(value) - 1) ELSE value

SetDecoded(frontmatter, key, value, decoded) ==
    SetKey(frontmatter, key, IF decoded.ok THEN decoded.val ELSE JStr(Unquoted(value)))

AddFrontmatter(frontmatter, kv) ==
    IF Len(kv) = 2
    THEN SetDecoded(frontmatter, Strip(kv[1]), Strip(kv[2]), JsonLoads(Strip(kv[2])))
    ELSE frontmatter

RECURSIVE FrontmatterLines(_, _)
FrontmatterLines(lines, frontmatter) ==
    IF lines = <<>> THEN frontmatter
    ELSE FrontmatterLines(Tail(lines),
                          AddFrontmatter(frontmatter, SplitOnce(Head(lines), <<":">>)))

FrontmatterParts(parts) ==
    IF Len(parts) < 2 THEN <<>>
    ELSE FrontmatterLines(Split(Strip(parts[1]), <<"\n">>), <<>>)

ExtractFrontmatter(content) ==
    IF StartsWith(content, Dashes) THEN FrontmatterParts(SplitOnce(From(content, 4), Dashes))
    ELSE <<>>

\* Path.stem of a file name with the given suffix
Stem(file, suffix) == SubSeq(file, 1, Len(file) - Len(suffix))

\* the entry of one note, of one summary or reference
NoteInfo(file, metadata) ==
    [file |-> file, title |-> Get(metadata, K_title, JStr(Stem(file, MdSuffix))),
     tags |-> Get(metadata, K_tags, JList(<<>>))]

RecordInfo(file, data) ==
    [file |-> file, title |-> PairGet(data.val.pairs, K_title, Stem(file, JsonSuffix)),
     categories |-> IF PairHas(data.val.pairs, K_categories)
                    THEN Iterate(JStr(PairGet(data.val.pairs, K_categories, <<>>)))
                    ELSE {}]

\* the files that glob("*.json") yields and json.load reads as a dict; the others
\* are skipped by the except clause
Indexed(dir) ==
    {f \in DOMAIN dir :
        /\ EndsWith(f, JsonSuffix)
        /\ \E data \in {JsonLoads(dir[f])} : data.ok /\ data.val.kind = "dict"}

\* utils.create_research_index over research_dir/notes, /summaries and /references
IndexOf(note_infos, summary_infos, reference_infos, now) ==
    [created |-> IsoFormat(now),
     total_files |-> Cardinality(note_infos) + Cardinality(summary_infos)
                         + Cardinality(reference_infos),
     notes |-> note_infos, summaries |-> summary_infos, references |-> reference_infos,
     tags |-> UNION {Iterate(info.tags) : info \in note_infos},
     categories |-> UNION {info.categories : info \in summary_infos}]

CreateResearchIndex(n, s, r, now) ==
    IndexOf({NoteInfo(f, ExtractFrontmatter(n[f])) : f \in {g \in DOMAIN n : EndsWith(g, MdSuffix)}},
            {RecordInfo(f, JsonLoads(s[f])) : f \in Indexed(s)},
            {RecordInfo(f, JsonLoads(r[f])) : f \in Indexed(r)},
            now)

\* a call_tool whose chain lacks the elif of create_research_index: the request
\* ends in the else branch
MissingBranch(args, n, s, r, now) ==
    Returns("unknown", PlainText("Unknown tool: ", <<"create_research_index">>), NoWrite)

_create_research_index(args, n, s, r, now) ==
    Returns("ok", JsonText(CreateResearchIndex(n, s, r, now)), NoWrite)

\* ResearchTools._upload_to_github; GitHubClient.upload_file re-raises a failure
_upload_to_github(args, net, github) ==
    IF ~github THEN GitHubUnavailable
    ELSE IF "file_path" \notin DOMAIN args THEN KeyError("file_path")
    ELSE IF "github_path" \notin DOMAIN args THEN KeyError("github_path")
    ELSE IF net = "empty" THEN Raises("FileNotFoundError", "File not found")
    ELSE IF net = "fail" THEN Raises("GithubException", "upload failed")
    ELSE Returns("ok", JsonText([success |-> TRUE, path |-> args.github_path]), NoWrite)

\* ResearchTools._upload_directory_to_github; upload_directory raises for a missing
\* directory and counts the files it could not upload
_upload_directory_to_github(args, net, github) ==
    IF ~github THEN GitHubUnavailable
    ELSE IF "local_dir" \notin DOMAIN args THEN KeyError("local_dir")
    ELSE IF net = "empty" THEN Raises("FileNotFoundError", "Directory not found")
    ELSE Returns("ok", JsonText([success |-> net = "ok"]), NoWrite)

\* ResearchTools._create_github_summary; create_research_summary re-raises a
\* failure
_create_github_summary(args, net, github) ==
    IF ~github THEN GitHubUnavailable
    ELSE IF "title" \notin DOMAIN args THEN KeyError("title")
    ELSE IF "content" \notin DOMAIN args THEN KeyError("content")
    ELSE IF net = "fail" THEN Raises("GithubException", "upload failed")
    ELSE Returns("ok", JsonText([success |-> TRUE, title |-> args.title]), NoWrite)

\* ResearchTools._sync_with_github with GitHubClient.sync_local_directory.  The
\* repository's research_data directory holds no file in the model, so the
\* direction "down" writes nothing locally.
_sync_with_github(args, net, github) ==
    IF ~github THEN GitHubUnavailable
    ELSE LET direction == IF "direction" \in DOMAIN args THEN args.direction ELSE "up"
         IN IF direction = "up"
            THEN (IF net = "empty" THEN Raises("FileNotFoundError", "Directory not found")
                  ELSE Returns("ok", JsonText([success |-> net = "ok"]), NoWrite))
            ELSE IF direction = "down"
            THEN Returns("ok", JsonText([success |-> net # "fail"]), NoWrite)
            ELSE Raises("ValueError", "Direction must be 'up' or 'down'")

\* ResearchTools._list_github_contents; list_repository_contents returns [] on a
\* failure
_list_github_contents(args, net, github) ==
    IF ~github THEN GitHubUnavailable
    ELSE LET path == IF "path" \in DOMAIN args THEN args.path ELSE ""
             contents == IF net = "ok" THEN <<"file">> ELSE <<>>
         IN Returns("ok", JsonText([path |-> path, contents |-> contents]), NoWrite)

\* ResearchTools._get_repository_info
_get_repository_info(args, net, github) ==
    IF ~github THEN GitHubUnavailable
    ELSE IF net = "fail" THEN Raises("GithubException", "request failed")
    ELSE Returns("ok", JsonText([name |-> "repo"]), NoWrite)

\* what one call meets outside the arguments: the outcome of its outbound request,
\* the two optional clients, the three directories and the clock
Env(net, groq, github, n, s, r, now) ==
    [net |-> net, groq |-> groq, github |-> github, notes |-> n, summaries |-> s,
     references |-> r, now |-> now]

\* the else branch of call_tool, taken in place of raising
UnknownToolRaises(name) == Raises("ValueError", name)

\* the else branch of call_tool
UnknownTool(name) == Returns("unknown", PlainText("Unknown tool: ", <<name>>), NoWrite)

\* the if/elif chain of ResearchTools.call_tool, inside its try
Dispatch(name, args, env) ==
    CASE name = "search_arxiv" -> _search_arxiv(args, env.net)
      [] name = "fetch_paper" -> _fetch_paper(args, env.net)
      [] name = "download_paper_content" -> _download_paper_content(args, env.net)
      [] name = "summarize_paper" -> _summarize_paper(args, env.net, env.groq)
      [] name = "extract_key_points" -> _extract_key_points(args, env.net, env.groq)
      [] name = "create_structured_summary" ->
            _create_structured_summary(args, env.net, env.groq)
      [] name = "generate_citation" -> _generate_citation(args, env.net, env.groq)
      [] name = "compare_papers" -> _compare_papers(args, env.net, env.groq)
      [] name = "save_notes" -> _save_notes(args, env.now)
      [] name = "save_summary" -> _save_summary(args, env.now)
      [] name = "save_reference" -> _save_reference(args, env.now)
      [] name = "search_local_notes" -> _search_local_notes(args, env.notes)
      [] name = "list_research_files" ->
            _list_research_files(args, env.notes, env.summaries, env.references)
      [] name = "organize_by_tags" -> _organize_by_tags(args, env.notes)
      [] name = "export_research_data" -> _export_research_data(args)
      [] name = "create_research_index" ->
            _create_research_index(args, env.notes, env.summaries, env.references, env.now)
      [] name = "upload_to_github" -> _upload_to_github(args, env.net, env.github)
      [] name = "upload_directory_to_github" ->
            _upload_directory_to_github(args, env.net, env.github)
      [] name = "create_github_summary" -> _create_github_summary(args, env.net, env.github)
      [] name = "sync_with_github" -> _sync_with_github(args, env.net, env.github)
      [] name = "list_github_contents" -> _list_github_contents(args, env.net, env.github)
      [] name = "get_repository_info" -> _get_repository_info(args, env.net, env.github)
      [] OTHER -> UnknownTool(name)

\* call_tool without its except clause: the exception leaves call_tool
Propagated(name, h) ==
    [raised |-> TRUE, propagated |-> TRUE, exc |-> h.exc, path |-> "propagated",
     content |-> <<>>, write |-> h.write]

\* the except clause of call_tool: the exception becomes the text of a result
Caught(name, h) ==
    [raised |-> TRUE, propagated |-> FALSE, exc |-> h.exc, path |-> "caught",
     content |-> <<TextContent(PlainText("Error executing ", <<name, h.exc[2]>>))>>,
     write |-> h.write]

\* a result whose content repeats its text item
ReturnedTwice(h) ==
    [raised |-> FALSE, propagated |-> FALSE, exc |-> <<>>, path |-> h.path,
     content |-> <<TextContent(h.text), TextContent(h.text)>>, write |-> h.write]

\* the return statements of call_tool: the handler's result h handed back
Returned(h) ==
    [raised |-> FALSE, propagated |-> FALSE, exc |-> <<>>, path |-> h.path,
     content |-> <<TextContent(h.text)>>, write |-> h.write]

Answer(name, h) == IF h.raised THEN Caught(name, h) ELSE Returned(h)

\* ResearchTools.call_tool: what the caller gets back.  raised tells whether the
\* handler raised, propagated whether the exception left call_tool.
CallTool(name, args, env) == Answer(name, Dispatch(name, args, env))

\* the requests sent to the dispatcher
NoArguments == [k \in {} |-> TRUE]
ValidId == <<"2", "3", "0", "1", ".", "0", "0", "0", "1">>
\* a paper id with a character that is not allowed in a file name
SummaryId == <<"a", "/", "1">>
CallTitle == <<"A">>
CallBody == <<"a">>
CallTag == <<"B">>
CallData == << <<K_title, JStr(CallTitle)>> >>

UnknownNames == {"no_such_tool", "Search_Arxiv", ""}
ToolNames == Range(ArXivTools) \cup Range(GroqTools) \cup Range(FileTools)
                \cup Range(GitHubTools)

\* the argument dictionaries tried for one tool name: with and without its required
\* keys, and each value of an option the handler branches on
Arguments(name) ==
    CASE name = "search_arxiv" -> {NoArguments, [query |-> CallTitle]}
      [] name = "fetch_paper" ->
            {NoArguments, [arxiv_id |-> ValidId], [arxiv_id |-> ArxivPrefix \o ValidId],
             [arxiv_id |-> CallTitle]}
      [] name = "download_paper_content" -> {NoArguments, [arxiv_id |-> ValidId]}
      [] name \in {"summarize_paper", "extract_key_points", "create_structured_summary"} ->
            {NoArguments, [content |-> CallBody]}
      [] name = "generate_citation" ->
            {NoArguments, [paper_metadata |-> << <<K_id, ValidId>> >>],
             [paper_metadata |-> << <<K_id, ValidId>> >>, style |-> "mla"]}
      [] name = "compare_papers" -> {NoArguments, [papers_content |-> <<CallBody>>]}
      [] name = "save_notes" ->
            {NoArguments, [title |-> CallTitle], [title |-> CallTitle, content |-> CallBody],
             [title |-> CallTitle, content |-> CallBody, tags |-> <<CallTag>>]}
      [] name = "save_summary" ->
            {NoArguments, [paper_id |-> ValidId],
             [paper_id |-> ValidId, summary_data |-> CallData]}
            \cup {[paper_id |-> ValidId, summary_data |-> CallData, format |-> f] :
                    f \in {"markdown", "xml"}}
      [] name = "save_reference" ->
            {NoArguments, [paper_id |-> ValidId],
             [paper_id |-> ValidId, reference_data |-> CallData]}
      [] name = "search_local_notes" ->
            {NoArguments, [query |-> CallTitle], [query |-> CallTag],
             [query |-> CallTag, search_tags |-> FALSE]}
      [] name = "list_research_files" ->
            {NoArguments, [directory |-> "notes"], [directory |-> "papers"]}
      [] name = "export_research_data" ->
            {NoArguments, [format |-> "folder"], [format |-> "tar"]}
      [] name = "upload_to_github" ->
            {NoArguments, [file_path |-> "notes/A.md"],
             [file_path |-> "notes/A.md", github_path |-> "A.md"]}
      [] name = "upload_directory_to_github" -> {NoArguments, [local_dir |-> "notes"]}
      [] name = "create_github_summary" ->
            {NoArguments, [title |-> CallTitle], [title |-> CallTitle, content |-> CallBody]}
      [] name = "sync_with_github" ->
            {NoArguments, [direction |-> "down"], [direction |-> "sideways"]}
      [] name = "list_github_contents" -> {NoArguments, [path |-> "notes"]}
      [] OTHER -> {NoArguments, [query |-> CallTitle]}

\* ResearchTools.__init__: the optional clients are constructed from the
\* configuration.  A GitHubClient constructor that raises leaves no ResearchTools
\* object, so every initial state holds a constructed one.
Init ==
    /\ \E c \in Configs :
          /\ config = c
          /\ groq_client = ConstructsGroq(c)
          /\ github_client = ConstructsGitHub(c)
    /\ notes = <<>>
    /\ summaries = <<>>
    /\ references = <<>>
    /\ saved = <<>>
    /\ clock = 0
    /\ last = NoOp
    /\ dispatched = 0
    /\ answered = 0
    /\ raisedBefore = FALSE
    /\ invoked = 0
    /\ arxiv_client = ArXivClient(DefaultDelay)
    /\ tasks = <<>>
    /\ log = <<>>

\* the file a call wrote, put in its directory
Written(dir, which, write) ==
    IF write.dir = which THEN WriteFile(dir, write.name, write.text) ELSE dir

\* one handler awaited again after it raised
AwaitedAgain(name, r) == IF r.raised THEN 2 ELSE 1

\* the handlers call_tool awaited for one request: the one of the branch taken,
\* none in the else branch
Awaited(name, r) == IF r.path = "unknown" THEN 0 ELSE 1

\* the effects of one answered request on the directories and the counters
Record(name, arguments, r) ==
    /\ dispatched' = dispatched + 1
    /\ answered' = IF r.propagated THEN answered ELSE answered + 1
    /\ raisedBefore' = (raisedBefore \/ r.raised)
    /\ notes' = Written(notes, "notes", r.write)
    /\ summaries' = Written(summaries, "summaries", r.write)
    /\ references' = Written(references, "references", r.write)
    /\ saved' = IF r.write.dir = "notes"
                THEN WriteFile(saved, r.write.name, r.write.rec) ELSE saved
    /\ clock' = clock + 1
    /\ last' = [op |-> "call_tool", name |-> name, arguments |-> arguments,
                listed |-> name \in Range(GetTools(groq_client, github_client)),
                raised |-> r.raised, propagated |-> r.propagated, exc |-> r.exc,
                path |-> r.path, content |-> r.content, wrote |-> r.write.dir,
                awaited |-> Awaited(name, r)]
    /\ UNCHANGED <<arxiv_client, tasks, log>>
    /\ UNCHANGED <<config, groq_client, github_client, invoked>>

\* one call_tool request, from its arrival to the result handed back
Call(name, arguments, net) ==
    /\ dispatched < MaxCalls
    /\ \E r \in {CallTool(name, arguments,
                          Env(net, groq_client, github_client, notes, summaries,
                              references, clock))} :
          Record(name, arguments, r)

CallKnownTool ==
    \E name \in ToolNames : \E arguments \in Arguments(name) : \E net \in Outcomes :
        Call(name, arguments, net)

CallUnknownTool ==
    \E name \in UnknownNames : \E arguments \in Arguments(name) : Call(name, arguments, "ok")

\* a get_tools request
ListTools ==
    /\ last' = [op |-> "get_tools", tools |-> GetTools(groq_client, github_client)]
    /\ UNCHANGED <<arxiv_client, tasks, log>>
    /\ UNCHANGED <<config, groq_client, github_client, notes, summaries, references, saved,
                   clock, dispatched, answered, raisedBefore, invoked>>

Next == CallKnownTool \/ CallUnknownTool \/ ListTools

Spec == Init /\ [][Next]_vars

(***************************************************************************)
(* The dispatcher: what call_tool and get_tools hand back.                 *)
(***************************************************************************)
\* the single text item of the last result
LastText == last.content[1].text

\* C1: a call whose handler raised is answered with one text item, the message
\* "Error executing <tool>: <exception>", the exception does not leave call_tool,
\* and every call dispatched so far, the ones after a raise included, was answered.
C1_RaiseIsAnswered ==
    /\ answered = dispatched
    /\ (last.op = "call_tool" /\ last.raised) =>
          /\ ~last.propagated
          /\ Len(last.content) = 1
          /\ last.content[1].type = "text"
          /\ LastText.enc = "plain"
          /\ LastText.msg = "Error executing "
          /\ LastText.values = <<last.name, last.exc[2]>>

\* a store ValueError was caught by an earlier call and a later call succeeded
C1_Witness ==
    /\ raisedBefore
    /\ last.op = "call_tool"
    /\ ~last.raised
    /\ last.path = "ok"
    /\ answered = 2

\* C2: a name that is none of the 22 operation names gets one text item reporting
\* the unknown tool; no exception is raised and nothing is written, whatever the
\* arguments and the configured clients.
C2_UnknownToolReported ==
    (last.op = "call_tool" /\ last.name \notin ToolNames) =>
        /\ ~last.raised
        /\ ~last.propagated
        /\ Len(last.content) = 1
        /\ last.content[1].type = "text"
        /\ LastText.enc = "plain"
        /\ LastText.msg = "Unknown tool: "
        /\ LastText.values = <<last.name>>
        /\ last.wrote = "none"

\* an unknown name called with arguments while both optional clients exist
C2_Witness ==
    /\ last.op = "call_tool"
    /\ last.name = "Search_Arxiv"
    /\ last.arguments # NoArguments
    /\ groq_client
    /\ github_client

\* the catalog the credentials call for
Supplied(key) == config[key]

\* C3: whatever calls came before, get_tools lists the 3 paper-search tools and the
\* 8 local-store tools, the 5 LLM-backed tools iff the LLM key was supplied, the 6
\* repository-backed tools iff token, owner and repository name were all supplied,
\* and nothing else.
C3_CatalogFromCredentials ==
    last.op = "get_tools" =>
        LET listed == Range(last.tools)
            llm == Supplied("groq_api_key")
            repo == /\ Supplied("github_token")
                    /\ Supplied("github_username")
                    /\ Supplied("github_repo")
        IN /\ Cardinality(Range(ArXivTools)) = 3
           /\ Cardinality(Range(FileTools)) = 8
           /\ Cardinality(Range(GroqTools)) = 5
           /\ Cardinality(Range(GitHubTools)) = 6
           /\ Range(ArXivTools) \cup Range(FileTools) \subseteq listed
           /\ \A t \in Range(GroqTools) : t \in listed <=> llm
           /\ \A t \in Range(GitHubTools) : t \in listed <=> repo
           /\ listed \subseteq ToolNames
           /\ Len(last.tools) = Cardinality(listed)

\* the catalog is listed after two calls, with the key, a token and an owner
\* supplied but no repository name
C3_Witness ==
    /\ last.op = "get_tools"
    /\ dispatched = MaxCalls
    /\ config.groq_api_key
    /\ config.github_token
    /\ config.github_username
    /\ ~config.github_repo
    /\ Len(last.tools) = 16

\* the last call named an LLM-backed or repository-backed tool that the catalog
\* omits
OmittedCalled ==
    /\ last.op = "call_tool"
    /\ ~last.listed
    /\ last.name \in Range(GroqTools) \cup Range(GitHubTools)

\* the text that names the missing configuration of a tool
Explains(name) ==
    /\ ~last.raised
    /\ last.path = "disabled"
    /\ Len(last.content) = 1
    /\ LastText.enc = "plain"
    /\ LastText.msg = (IF name \in Range(GroqTools)
                       THEN "Groq client not available. Please configure GROQ_API_KEY."
                       ELSE "GitHub client not available. Please configure GitHub settings.")
    /\ last.wrote = "none"

\* C4 as stated: every LLM-backed or repository-backed tool omitted from the
\* catalog answers a call with the text naming the missing configuration.
C4_OmittedToolExplains == OmittedCalled => Explains(last.name)

\* C4, amended: that holds of every omitted tool but generate_citation, which has
\* no such check: with paper_metadata it returns an ordinary JSON citation result
\* made without the LLM (the local APA citation, or for another style a citation
\* text saying the Groq API is required), without paper_metadata the KeyError text.
C4_OmittedToolExplainsButCitation ==
    OmittedCalled =>
        IF last.name # "generate_citation" THEN Explains(last.name)
        ELSE IF "paper_metadata" \in DOMAIN last.arguments
        THEN /\ ~last.raised
             /\ last.path = "ok"
             /\ LastText.enc = "json"
             /\ LastText.body.citation =
                    (IF LastText.body.style = "apa" THEN "create_citation_apa"
                     ELSE "Citation generation requires Groq API for this style")
        ELSE /\ last.raised
             /\ last.exc = <<"KeyError", "paper_metadata">>
             /\ LastText.msg = "Error executing "

\* a repository-backed tool is called with the LLM key and a token supplied but no
\* repository name, and explains
C4_Witness ==
    /\ OmittedCalled
    /\ last.name = "sync_with_github"
    /\ last.path = "disabled"
    /\ config.groq_api_key
    /\ config.github_token
    /\ ~config.github_repo

\* C5: every result of call_tool holds exactly one item, of type text; the text of
\* a successful operation is a JSON-encoded body, that of the raw content download
\* is plain.
C5_OneTextItem ==
    last.op = "call_tool" =>
        /\ Len(last.content) = 1
        /\ last.content[1].type = "text"
        /\ last.path = "ok" =>
              LastText.enc = (IF last.name = "download_paper_content" THEN "plain"
                              ELSE "json")

\* the raw content download succeeded
C5_Witness ==
    /\ last.op = "call_tool"
    /\ last.name = "download_paper_content"
    /\ last.path = "ok"
    /\ LastText.enc = "plain"

\* a save_summary call, with its required arguments, in a format that is neither
\* "json" nor "markdown"
UnsupportedFormatCall ==
    /\ last'.op = "call_tool"
    /\ dispatched' = dispatched + 1
    /\ last'.name = "save_summary"
    /\ {"paper_id", "summary_data", "format"} \subseteq DOMAIN last'.arguments
    /\ last'.arguments.format \notin {"json", "markdown"}

\* C14: save_summary with a format other than "json" or "markdown" fails with a
\* ValueError and leaves the summaries directory as it was, no file created or
\* modified; the dispatcher answers the call with the one error text.
C14_UnsupportedFormat ==
    [][UnsupportedFormatCall =>
          /\ summaries' = summaries
          /\ last'.wrote = "none"
          /\ last'.raised
          /\ last'.exc = <<"ValueError", "Unsupported format type">>
          /\ ~last'.propagated
          /\ Len(last'.content) = 1
          /\ last'.content[1].type = "text"
          /\ last'.content[1].text.enc = "plain"
          /\ last'.content[1].text.msg = "Error executing "
          /\ last'.content[1].text.values = <<"save_summary", "Unsupported format type">>]_vars

\* a call in the format "xml" was refused while a summary file was stored
C14_Witness ==
    /\ last.op = "call_tool"
    /\ last.name = "save_summary"
    /\ "format" \in DOMAIN last.arguments
    /\ last.arguments.format = "xml"
    /\ last.raised
    /\ summaries # <<>>

(***************************************************************************)
(* The JSON-RPC endpoint: handle_jsonrpc over the registry app.py fills.   *)
(* Under SpecRpc, notes is settings.notes_dir, the directory of            *)
(* tools/notes_tool.py.                                                    *)
(***************************************************************************)
MethodNotFound == -32601
HandlerError == -32000
BadRequest == 400

\* method_registry after the four register_*_methods() calls of app.py
MethodRegistry ==
    {"arxiv.search", "notes.save", "notes.list", "notes.read", "github.publish",
     "summarize.text", "summarize.arxiv_items"}

\* the parameters of the registered functions: those without a default, and all
Signature(method) ==
    CASE method = "arxiv.search" ->
            [required |-> {"query"}, all |-> {"query", "max_results"}]
      [] method = "notes.save" ->
            [required |-> {"title", "content"}, all |-> {"title", "content", "subdir"}]
      [] method = "notes.list" -> [required |-> {}, all |-> {"subdir"}]
      [] method = "notes.read" -> [required |-> {"path"}, all |-> {"path"}]
      [] method = "github.publish" ->
            [required |-> {}, all |-> {"commit_message", "paths"}]
      [] method = "summarize.text" ->
            [required |-> {"text"}, all |-> {"text", "max_words", "model"}]
      [] method = "summarize.arxiv_items" ->
            [required |-> {"items"}, all |-> {"items", "max_words", "model"}]

\* func called with **params cannot bind: an unexpected keyword or a missing argument
BindFails(sig, params) ==
    \/ ~(DOMAIN params \subseteq sig.all)
    \/ ~(sig.required \subseteq DOMAIN params)

\* str.isalnum() on the characters the model sends
IsAlnum(c) == c \in {"A", "B", "a", "b"} \cup Range(Digits)

KeepsInTitle(c) == IsAlnum(c) \/ c \in {" ", "-", "_"}

\* notes_tool.save_note: the file written
SafeTitle(title) == SelectSeq(title, KeepsInTitle) \o MdSuffix

\* what a registered function did: returned, or raised
RpcReturns(result, write) ==
    [raised |-> FALSE, exc |-> <<>>, result |-> result, write |-> write]
RpcRaises(type, message) ==
    [raised |-> TRUE, exc |-> <<type, message>>, result |-> <<>>, write |-> NoWrite]

\* the body of a registered function, once its arguments are bound
Body(method, params, net, dir) ==
    CASE method = "arxiv.search" ->
            IF net = "fail" THEN RpcRaises("HTTPError", "arxiv request failed")
            ELSE RpcReturns(IF net = "ok" THEN <<params.query>> ELSE <<>>, NoWrite)
      [] method = "notes.save" ->
            RpcReturns(<<SafeTitle(params.title)>>,
                       FileWrite("notes", SafeTitle(params.title), params.content, <<>>))
      [] method = "notes.list" -> RpcReturns(<<DOMAIN dir>>, NoWrite)
      [] method = "notes.read" ->
            IF params.path \in DOMAIN dir THEN RpcReturns(<<dir[params.path]>>, NoWrite)
            ELSE RpcRaises("FileNotFoundError", "No such file or directory")
      [] method = "github.publish" ->
            IF net = "fail"
            THEN RpcRaises("ValueError", "GITHUB_TOKEN and GITHUB_REPO must be set")
            ELSE RpcReturns(<<Cardinality(DOMAIN dir)>>, NoWrite)
      [] method = "summarize.text" -> RpcReturns(<<params.text>>, NoWrite)
      [] method = "summarize.arxiv_items" -> RpcReturns(<<params.items>>, NoWrite)

\* func called with **params
Invoke(method, params, net, dir) ==
    IF BindFails(Signature(method), params)
    THEN RpcRaises("TypeError", "unexpected or missing keyword argument")
    ELSE Body(method, params, net, dir)

\* request ids: absent (null), an int, a str
NullId == [kind |-> "null", int |-> 0, str |-> ""]
IntId(n) == [kind |-> "int", int |-> n, str |-> ""]
StrId(t) == [kind |-> "str", int |-> 0, str |-> t]
RpcIds == {NullId, IntId(0), IntId(1), StrId("1")}

NoError == [code |-> 0, message |-> ""]

\* an error response that does not name the request
AnonymousError(id, code, message) ==
    [jsonrpc |-> "2.0", id |-> NullId, is_error |-> TRUE,
     error |-> [code |-> code, message |-> message], result |-> <<>>]

\* JSONRPCResponse(id=..., error={"code": ..., "message": ...})
ErrorResponse(id, code, message) ==
    [jsonrpc |-> "2.0", id |-> id, is_error |-> TRUE,
     error |-> [code |-> code, message |-> message], result |-> <<>>]

\* JSONRPCResponse(id=..., result=...)
ResultResponse(id, result) ==
    [jsonrpc |-> "2.0", id |-> id, is_error |-> FALSE, error |-> NoError,
     result |-> result]

\* what the endpoint did with a request: rejected it with an HTTP error, or
\* returned a response, with or without calling the registered function
Rejected ==
    [rejected |-> TRUE, status_code |-> BadRequest, called |-> FALSE, raised |-> FALSE,
     response |-> ResultResponse(NullId, <<>>), write |-> NoWrite]

Responded(response, called, raised, write) ==
    [rejected |-> FALSE, status_code |-> 200, called |-> called, raised |-> raised,
     response |-> response, write |-> write]

\* every version tag accepted
AnyVersion(request) == TRUE

\* request.jsonrpc != "2.0" is refused
VersionAccepted(request) == request.jsonrpc = "2.0"

\* an unregistered method answered like a function that raised
NotFoundAsRaised(request) ==
    Responded(ErrorResponse(request.id, HandlerError, "Method not found"), FALSE, FALSE,
              NoWrite)

\* the response to a method that is not in the registry
NotFound(request) ==
    Responded(ErrorResponse(request.id, MethodNotFound, "Method not found"), FALSE, FALSE,
              NoWrite)

\* an exception answered without the id of the request
RaisedAnonymously(request, h) ==
    Responded(AnonymousError(request.id, HandlerError, h.exc[2]), TRUE, TRUE, NoWrite)

\* the except clause of handle_jsonrpc
RaisedResponse(request, h) ==
    Responded(ErrorResponse(request.id, HandlerError, h.exc[2]), TRUE, TRUE, NoWrite)

\* the try block of handle_jsonrpc, after func called with **params
Completed(request, h) ==
    IF h.raised THEN RaisedResponse(request, h)
    ELSE Responded(ResultResponse(request.id, h.result), TRUE, FALSE, h.write)

\* jsonrpc.handle_jsonrpc
HandleJsonRpc(request, net, dir) ==
    IF ~VersionAccepted(request) THEN Rejected
    ELSE IF request.method \notin MethodRegistry THEN NotFound(request)
    ELSE Completed(request, Invoke(request.method, request.params, net, dir))

\* the requests posted to the endpoint
RpcVersions == {"2.0", "1.0", ""}
RpcMethods == MethodRegistry \cup {"notes.delete", "tools/list"}
RpcTitle == <<"A", ":">>

RpcParams(method) ==
    CASE method = "arxiv.search" ->
            {NoArguments, [query |-> CallTitle], [query |-> CallTitle, limit |-> 5]}
      [] method = "notes.save" ->
            {NoArguments, [title |-> RpcTitle], [title |-> RpcTitle, content |-> CallBody]}
      [] method = "notes.list" -> {NoArguments, [folder |-> CallTitle]}
      [] method = "notes.read" -> {NoArguments, [path |-> SafeTitle(RpcTitle)]}
      [] method = "summarize.text" -> {NoArguments, [text |-> CallBody]}
      [] method = "summarize.arxiv_items" -> {NoArguments, [items |-> <<>>]}
      [] method = "github.publish" -> {NoArguments}
      [] OTHER -> {NoArguments, [title |-> RpcTitle, content |-> CallBody]}

RpcRequests ==
    UNION {[jsonrpc : RpcVersions, method : {m}, params : RpcParams(m), id : RpcIds] :
              m \in RpcMethods}

\* the effects of one request handled by the endpoint
RpcRecord(request, r) ==
    /\ dispatched' = dispatched + 1
    /\ answered' = IF r.rejected THEN answered ELSE answered + 1
    /\ invoked' = IF r.called THEN invoked + 1 ELSE invoked
    /\ notes' = Written(notes, "notes", r.write)
    /\ last' = [op |-> "rpc", request |-> request, rejected |-> r.rejected,
                status_code |-> r.status_code, called |-> r.called, raised |-> r.raised,
                response |-> r.response, invoked_before |-> invoked,
                notes_before |-> notes]
    /\ UNCHANGED <<arxiv_client, tasks, log>>
    /\ UNCHANGED <<config, groq_client, github_client, summaries, references, saved,
                   clock, raisedBefore>>

\* one POST /json-rpc
RpcRequest ==
    /\ dispatched < MaxRequests
    /\ \E request \in RpcRequests : \E net \in {"ok", "fail"} :
          \E r \in {HandleJsonRpc(request, net, notes)} : RpcRecord(request, r)

InitRpc == InitCommon

NextRpc == RpcRequest

SpecRpc == InitRpc /\ [][NextRpc]_vars

\* the last request was a JSON-RPC request with the version tag "2.0"
Rpc20 == last.op = "rpc" /\ last.request.jsonrpc = "2.0"

\* C6: with version "2.0", a method that is not registered gets an error response
\* with code -32601 and no registered function is called; a registered function
\* that raises, a failed argument binding included, gets code -32000; neither code
\* is given in the other case.
C6_NotFoundVersusRaised ==
    Rpc20 =>
        /\ last.request.method \notin MethodRegistry =>
              /\ ~last.rejected
              /\ last.response.is_error
              /\ last.response.error.code = -32601
              /\ ~last.called
              /\ invoked = last.invoked_before
        /\ (last.request.method \in MethodRegistry /\ last.raised) =>
              /\ ~last.rejected
              /\ last.response.is_error
              /\ last.response.error.code = -32000
        /\ (last.response.is_error /\ last.response.error.code = -32601) =>
              last.request.method \notin MethodRegistry
        /\ (last.response.is_error /\ last.response.error.code = -32000) =>
              last.request.method \in MethodRegistry /\ last.called /\ last.raised

\* a registered function was called with a keyword it does not take, after an
\* earlier request had named an unregistered method
C6_Witness ==
    /\ Rpc20
    /\ dispatched = 2
    /\ invoked = 1
    /\ last.request.method = "arxiv.search"
    /\ "limit" \in DOMAIN last.request.params
    /\ last.response.error.code = -32000

\* C7: every response handle_jsonrpc returns (a result, a -32601 error, a -32000
\* error) carries the id of the request it answers, a null id included.
C7_IdEchoed ==
    (last.op = "rpc" /\ ~last.rejected) => last.response.id = last.request.id

\* a request without an id is answered with a -32000 error and a null id
C7_Witness ==
    /\ last.op = "rpc"
    /\ ~last.rejected
    /\ last.request.id = NullId
    /\ last.response.is_error
    /\ last.response.error.code = -32000
    /\ last.response.id = NullId

\* C8: a request whose version tag is not "2.0" is refused with status 400 before
\* the method is looked up: no registered function is called and the notes
\* directory is left as it was, even when the method is registered.
C8_VersionCheckedFirst ==
    (last.op = "rpc" /\ last.request.jsonrpc # "2.0") =>
        /\ last.rejected
        /\ last.status_code = 400
        /\ ~last.called
        /\ invoked = last.invoked_before
        /\ notes = last.notes_before

\* notes.save with valid arguments and the version tag "1.0" is refused
C8_Witness ==
    /\ last.op = "rpc"
    /\ last.request.jsonrpc = "1.0"
    /\ last.request.method = "notes.save"
    /\ DOMAIN last.request.params = {"title", "content"}
    /\ last.rejected
    /\ notes = <<>>

(***************************************************************************)
(* The FileManager used directly: the three collections, their listing,    *)
(* the tag map and the research index.                                     *)
(***************************************************************************)
\* the notes saved: titles that sanitize to one file name ("A" and "A ", ":" and
\* "_"), and the header delimiter as a title
FileNotes ==
    {[title |-> <<"A">>, content |-> <<"a">>, tags |-> <<>>],
     [title |-> <<"A", " ">>, content |-> <<"b">>, tags |-> <<CallTag>>],
     [title |-> <<":">>, content |-> <<"a">>, tags |-> <<CallTag, CallBody>>],
     [title |-> <<"_">>, content |-> <<"b">>, tags |-> <<>>],
     [title |-> Dashes, content |-> <<"a">>, tags |-> <<CallTag>>]}

\* save_notes as one entry of the history
NoteSaved(title, content, tags, now, file_path) ==
    [op |-> "save_notes", title |-> title, content |-> content, tags |-> tags,
     now |-> now, file_path |-> file_path]

FilesSaveNotes ==
    /\ Len(log) < MaxFileSaves
    /\ \E note \in FileNotes :
          /\ SaveNotes(note.title, note.content, note.tags, <<>>)
          /\ log' = Append(log, NoteSaved(note.title, note.content, note.tags, clock,
                                          last'.file_path))

\* FileManager.organize_by_tags()
FilesOrganizeByTags ==
    /\ last' = [op |-> "organize_by_tags", tag_map |-> OrganizeByTags(notes)]
    /\ UNCHANGED <<arxiv_client, tasks, log>>
    /\ UNCHANGED <<config, groq_client, github_client, notes, summaries, references, saved,
                   clock, dispatched, answered, raisedBefore, invoked>>

\* save_summary and save_reference as entries of the history
RecordSaved(op, paper_id, format_type, now, file_path) ==
    [op |-> op, paper_id |-> paper_id, format_type |-> format_type, now |-> now,
     file_path |-> file_path]

FileIds == {SummaryId, CallTitle}

\* FileManager.save_summary(paper_id, summary_data, format_type)
FilesSaveSummary ==
    /\ Len(log) < MaxFileSaves
    /\ \E paper_id \in FileIds, format_type \in {"json", "markdown"} :
          \E saving \in {SaveSummary(paper_id, CallData, format_type, clock)} :
              /\ summaries' = WriteFile(summaries, saving.name, saving.text)
              /\ log' = Append(log, RecordSaved("save_summary", paper_id, format_type, clock,
                                                saving.name))
              /\ last' = [op |-> "save_summary", file_path |-> saving.name]
    /\ clock' = clock + 1
    /\ UNCHANGED <<arxiv_client, tasks>>
    /\ UNCHANGED <<config, groq_client, github_client, notes, references, saved,
                   dispatched, answered, raisedBefore, invoked>>

\* FileManager.save_reference(paper_id, reference_data)
FilesSaveReference ==
    /\ Len(log) < MaxFileSaves
    /\ \E paper_id \in FileIds :
          \E saving \in {SaveReference(paper_id, CallData, clock)} :
              /\ references' = WriteFile(references, saving.name, saving.text)
              /\ log' = Append(log, RecordSaved("save_reference", paper_id, "json", clock,
                                                saving.name))
              /\ last' = [op |-> "save_reference", file_path |-> saving.name]
    /\ clock' = clock + 1
    /\ UNCHANGED <<arxiv_client, tasks>>
    /\ UNCHANGED <<config, groq_client, github_client, notes, summaries, saved,
                   dispatched, answered, raisedBefore, invoked>>

\* FileManager.list_files(directory)
FilesListFiles ==
    /\ \E directory \in {"all", "notes", "summaries", "references", "papers", ""} :
          \E listing \in {ListFiles(directory, notes, summaries, references)} :
              last' = [op |-> "list_files", directory |-> directory,
                       raised |-> listing.raised, result |-> listing.result]
    /\ UNCHANGED <<arxiv_client, tasks, log>>
    /\ UNCHANGED <<config, groq_client, github_client, notes, summaries, references, saved,
                   clock, dispatched, answered, raisedBefore, invoked>>

\* utils.create_research_index(research_dir)
FilesCreateIndex ==
    /\ last' = [op |-> "create_research_index",
                index |-> CreateResearchIndex(notes, summaries, references, clock)]
    /\ UNCHANGED <<arxiv_client, tasks, log>>
    /\ UNCHANGED <<config, groq_client, github_client, notes, summaries, references, saved,
                   clock, dispatched, answered, raisedBefore, invoked>>

InitFiles == InitCommon

NextFiles ==
    \/ FilesSaveNotes
    \/ FilesSaveSummary
    \/ FilesSaveReference
    \/ FilesListFiles
    \/ FilesOrganizeByTags
    \/ FilesCreateIndex

SpecFiles == InitFiles /\ [][NextFiles]_vars

\* the save_notes calls made so far, and the last one made under a file name
NoteSaves == {i \in 1..Len(log) : log[i].op = "save_notes"}
SanitizedName(i) == SanitizeFilename(log[i].title) \o MdSuffix
LatestSave(f) ==
    CHOOSE i \in NoteSaves :
        /\ SanitizedName(i) = f
        /\ \A j \in NoteSaves : SanitizedName(j) = f => j <= i

\* C11: after any sequence of save_notes calls the notes directory holds exactly
\* one file per distinct sanitized title, the file holds the header and the body of
\* the most recent save under that sanitized title, and every save, a colliding
\* one included, returned the path of its file.
C11_LastSaveWins ==
    /\ DOMAIN notes = {SanitizedName(i) : i \in NoteSaves}
    /\ \A i \in NoteSaves : log[i].file_path = SanitizedName(i)
    /\ \A f \in DOMAIN notes :
          \E i \in {LatestSave(f)} :
              notes[f] = NoteFileText(log[i].title, log[i].content, log[i].tags, <<>>,
                                      log[i].now)

\* the tags the note stored in file f was saved with
StoredTags(f) == Range(log[LatestSave(f)].tags)

\* C13: organize_by_tags returns a map in which the file list of every tag t holds
\* exactly the files of the stored notes that carry t, and a tag that no stored
\* note carries is not a key.
C13_TagMapExact ==
    last.op = "organize_by_tags" =>
        \A t \in UNION {Range(note.tags) : note \in FileNotes} :
            \E carriers \in {{f \in DOMAIN notes : t \in StoredTags(f)}} :
                IF carriers = {} THEN t \notin DOMAIN last.tag_map
                ELSE t \in DOMAIN last.tag_map /\ last.tag_map[t] = carriers

\* the three directories by the names list_files gives them
Collections == [notes |-> notes, summaries |-> summaries, references |-> references]

\* a list in ascending order that holds exactly the file names of dir
ListsExactly(list, dir) ==
    /\ \A i, j \in 1..Len(list) : i < j => Less(list[i], list[j])
    /\ {list[i] : i \in 1..Len(list)} = DOMAIN dir

\* C17: list_files("all") returns the three keys notes, summaries and references,
\* list_files(c) for one of these names returns only the key c, each list is sorted
\* and holds exactly the file names of that collection, and any other name raises
\* the ValueError.
C17_ListFiles ==
    last.op = "list_files" =>
        /\ last.raised <=> last.directory \notin {"all"} \cup DOMAIN Collections
        /\ last.directory = "all" => DOMAIN last.result = DOMAIN Collections
        /\ last.directory \in DOMAIN Collections => DOMAIN last.result = {last.directory}
        /\ ~last.raised =>
              \A c \in DOMAIN last.result : ListsExactly(last.result[c], Collections[c])

\* two notes saved in descending order of their file names, then listed with "all"
C17_Witness ==
    /\ last.op = "list_files"
    /\ last.directory = "all"
    /\ Len(log) = 2
    /\ \A i \in 1..2 : log[i].op = "save_notes"
    /\ Less(log[2].file_path, log[1].file_path)
    /\ last.result.notes = <<log[2].file_path, log[1].file_path>>

\* the entries of a listing name each file of dir once and no other file
ListsEach(infos, dir) ==
    /\ {info.file : info \in infos} = DOMAIN dir
    /\ Cardinality(infos) = Cardinality(DOMAIN dir)

\* C18: after any sequence of save_notes, save_summary (either format) and
\* save_reference calls, the index's total count is the number of files stored in
\* the three collections, every stored file is in the listing of its kind and in it
\* once, and the index's tags are the union of the tags of the stored notes.
C18_IndexComplete ==
    last.op = "create_research_index" =>
        /\ last.index.total_files = Cardinality(DOMAIN notes) + Cardinality(DOMAIN summaries)
                                        + Cardinality(DOMAIN references)
        /\ ListsEach(last.index.notes, notes)
        /\ ListsEach(last.index.summaries, summaries)
        /\ ListsEach(last.index.references, references)
        /\ last.index.tags = UNION {StoredTags(f) : f \in DOMAIN notes}

\* two saves with different titles and bodies that collided on one file name
C11_Witness ==
    \E i, j \in NoteSaves :
        /\ i < j
        /\ SanitizedName(i) = SanitizedName(j)
        /\ log[i].title # log[j].title
        /\ log[i].content # log[j].content
        /\ log[i].tags # log[j].tags

(***************************************************************************)
(* _sanitize_filename on its own: titles with the invalid characters,      *)
(* whitespace runs at the start, inside and at the end, and more than 100  *)
(* characters.                                                             *)
(***************************************************************************)
SanitizeAlphabet == InvalidChars \cup Whitespace \cup {"a", "_"}
SanitizeGaps == {<<>>, <<" ">>, <<" ", "\t">>, <<"\n", "\r", " ">>}
SanitizeTails == {<<>>, <<"a">>, <<" ">>, <<"?">>}
FillLengths == {0, 1, FilenameLimit - 2, FilenameLimit - 1, FilenameLimit}
Fill(k) == [i \in 1..k |-> "a"]
SanitizeInputs ==
    {first \o gap \o Fill(k) \o tail :
        first \in Texts(SanitizeAlphabet, MaxSanitizeLen), gap \in SanitizeGaps,
        k \in FillLengths, tail \in SanitizeTails}

\* one call of _sanitize_filename, on a fresh input
Sanitize ==
    /\ last = NoOp
    /\ \E filename \in SanitizeInputs :
          last' = [op |-> "_sanitize_filename", filename |-> filename,
                   result |-> SanitizeFilename(filename)]
    /\ UNCHANGED <<arxiv_client, tasks, log>>
    /\ UNCHANGED <<config, groq_client, github_client, notes, summaries, references, saved,
                   clock, dispatched, answered, raisedBefore, invoked>>

InitSanitize == InitCommon

NextSanitize == Sanitize

SpecSanitize == InitSanitize /\ [][NextSanitize]_vars

\* the output has none of the characters <>:"/\|?*, no whitespace, and at most
\* 100 characters
CleanName(result) ==
    /\ \A i \in 1..Len(result) : result[i] \notin InvalidChars \cup Whitespace
    /\ Len(result) <= FilenameLimit

\* s with every invalid character and every whitespace run, wherever it stands,
\* replaced by one underscore
ReplaceRuns(s) ==
    LET IsMark(c) == c # ""
    IN SelectSeq([i \in 1..Len(s) |->
                     IF s[i] \in Whitespace
                     THEN (IF i > 1 /\ s[i - 1] \in Whitespace THEN "" ELSE "_")
                     ELSE IF s[i] \in InvalidChars THEN "_" ELSE s[i]],
                 IsMark)

\* C12 as stated: for every title the output of _sanitize_filename has no character
\* of <>:"/\|?*, no whitespace, at most 100 characters, and it is the title with
\* each whitespace run replaced by one underscore.
C12_EachRunReplaced ==
    last.op = "_sanitize_filename" =>
        /\ CleanName(last.result)
        /\ last.result = SubSeq(ReplaceRuns(last.filename), 1,
                                Min(Len(ReplaceRuns(last.filename)), FilenameLimit))

\* C12, amended: the output has none of those characters, no whitespace and at most
\* 100 characters; whitespace at the start and at the end of the title is dropped,
\* and each whitespace run between other characters is replaced by one underscore.
C12_InnerRunsReplaced ==
    last.op = "_sanitize_filename" =>
        /\ CleanName(last.result)
        /\ last.result = SubSeq(ReplaceRuns(Strip(last.filename)), 1,
                                Min(Len(ReplaceRuns(Strip(last.filename))), FilenameLimit))

\* a title of more than 100 characters with an invalid character and a whitespace
\* run of two inside it, cut to 100 characters
C12_Witness ==
    /\ last.op = "_sanitize_filename"
    /\ Len(last.filename) > FilenameLimit
    /\ Len(last.result) = FilenameLimit
    /\ \E i \in 1..Len(last.filename) : last.filename[i] \in InvalidChars
    /\ \E i \in 2..(Len(last.filename) - 2) :
          /\ last.filename[i - 1] \notin Whitespace
          /\ last.filename[i] \in Whitespace
          /\ last.filename[i + 1] \in Whitespace
          /\ last.filename[i + 2] \notin Whitespace

(***************************************************************************)
(* save_summary on its own: the JSON file read back, the Markdown          *)
(* rendering.                                                              *)
(***************************************************************************)
K_other == <<"a", "_", "b">>

\* a dict with the given optional items, each <<>> (absent) or <<value>>
Item(key, choice) == IF choice = <<>> THEN <<>> ELSE << <<key, choice[1]>> >>
Optional(values) == {<<>>} \cup {<<v>> : v \in values}

\* records whose values are strings, with a quote and a backslash to escape
FlatRecords ==
    {Item(K_title, title) \o Item(K_published, published) \o Item(K_summary, summary)
        \o Item(K_created, created) \o Item(K_other, other) :
        title \in Optional({JStr(<<"A">>)}), published \in Optional({JStr(<<"1">>)}),
        summary \in Optional({JStr(<<"a">>)}), created \in Optional({JStr(<<"x">>)}),
        other \in Optional({JStr(<<"b", "\"", "\\">>), JStr(<<" ">>)})}

\* the list-valued items a record may have besides
ListItems ==
    {<<>>,
     Item(K_authors, <<JList(<<CallTitle, CallTag>>)>>),
     Item(K_categories, <<JList(<<CallBody>>)>>),
     Item(K_authors, <<JList(<<CallTitle>>)>>) \o Item(K_categories, <<JList(<<>>)>>)
         \o Item(K_key_points, <<JList(<<CallBody, CallTag>>)>>)}

\* the calls made: JSON files are written for the records that the decoder of
\* this model reads back, the records of strings
SummaryCalls ==
    {<<flat, "json">> : flat \in FlatRecords}
        \cup {<<flat \o lists, "markdown">> : flat \in FlatRecords, lists \in ListItems}
        \cup {<<flat, "xml">> : flat \in {<<>>, Item(K_title, <<JStr(CallTitle)>>)}}

\* FileManager.save_summary(paper_id, summary_data, format_type)
SaveSummaryCall(paper_id, summary_data, format_type, saving) ==
    /\ summaries' = IF saving.raised THEN summaries
                    ELSE WriteFile(summaries, saving.name, saving.text)
    /\ last' = [op |-> "save_summary", paper_id |-> paper_id,
                summary_data |-> summary_data, format_type |-> format_type,
                raised |-> saving.raised, file_path |-> saving.name, now |-> clock]
    /\ clock' = clock + 1
    /\ UNCHANGED <<arxiv_client, tasks, log>>
    /\ UNCHANGED <<config, groq_client, github_client, notes, references, saved,
                   dispatched, answered, raisedBefore, invoked>>

SummarySave ==
    /\ clock < MaxSummarySaves
    /\ \E call \in SummaryCalls :
          SaveSummaryCall(SummaryId, call[1], call[2],
                          SaveSummary(SummaryId, call[1], call[2], clock))

InitSummary == InitCommon

NextSummary == SummarySave

SpecSummary == InitSummary /\ [][NextSummary]_vars

\* the last call wrote a summary file in the given format
Wrote(format_type) ==
    last.op = "save_summary" /\ ~last.raised /\ last.format_type = format_type

\* the file is a JSON object that has key with the string value
HasMember(loaded, key, value) ==
    /\ loaded.ok
    /\ loaded.val.kind = "dict"
    /\ PairHas(loaded.val.pairs, key)
    /\ PairGet(loaded.val.pairs, key, <<>>) = value

\* C15: save_summary with format "json" writes one file named from the sanitized
\* id, and the file parses to an object that has every field of the original record
\* with its original value, plus a creation timestamp.
C15_JsonKeepsRecord ==
    Wrote("json") =>
        /\ last.file_path = <<"a", "_", "1", "_", "s", "u", "m", "m", "a", "r", "y", ".", "j", "s", "o", "n">>
        /\ DOMAIN summaries = {last.file_path}
        /\ \E loaded \in {JsonLoads(summaries[last.file_path])} :
              /\ \A i \in 1..Len(last.summary_data) :
                    HasMember(loaded, last.summary_data[i][1], last.summary_data[i][2].str)
              /\ HasMember(loaded, K_created, IsoFormat(last.now))

\* the last call rendered a record that has a title and a summary
RenderedTitleAndSummary ==
    /\ Wrote("markdown")
    /\ PairHas(last.summary_data, K_title)
    /\ PairHas(last.summary_data, K_summary)

\* some "## Summary" line comes after the line "# <title>", with nothing between
\* the two but lines of the set between
TitleThenSummary(lines, title, between) ==
    \E h \in 1..Len(lines) :
        /\ lines[h] = SummaryHeading
        /\ \E t \in 1..(h - 1) :
              /\ lines[t] = <<"#", " ">> \o title
              /\ \A k \in (t + 1)..(h - 1) : lines[k] \in between

\* the bold lines of the metadata fields the record has
MetadataLines(summary_data) ==
    {AuthorsLabel \o Join(PairGet(summary_data, K_authors, JList(<<>>)).items, <<",", " ">>) :
        x \in {K_authors} \cap {summary_data[i][1] : i \in 1..Len(summary_data)}}
    \cup {PublishedLabel \o PairGet(summary_data, K_published, JStr(<<>>)).str :
        x \in {K_published} \cap {summary_data[i][1] : i \in 1..Len(summary_data)}}
    \cup {CategoriesLabel
              \o Join(PairGet(summary_data, K_categories, JList(<<>>)).items, <<",", " ">>) :
        x \in {K_categories} \cap {summary_data[i][1] : i \in 1..Len(summary_data)}}

\* C16 as stated: for every record that has a title and a summary, whichever other
\* fields it has, the rendering has a "## Summary" heading preceded by the title as
\* a top-level heading with only blank lines between the two.
C16_OnlyBlankLinesBetween ==
    RenderedTitleAndSummary =>
        TitleThenSummary(Split(summaries[last.file_path], <<"\n">>),
                         PairGet(last.summary_data, K_title, JStr(<<>>)).str,
                         {<<>>})

\* C16, amended: between the title heading and the "## Summary" heading there are
\* only blank lines and the bold lines of the fields authors, published and
\* categories that the record has; with none of these three, only blank lines.
C16_MetadataLinesBetween ==
    RenderedTitleAndSummary =>
        TitleThenSummary(Split(summaries[last.file_path], <<"\n">>),
                         PairGet(last.summary_data, K_title, JStr(<<>>)).str,
                         {<<>>} \cup MetadataLines(last.summary_data))

\* a record with a title, a summary, authors, a publication date and a further
\* string field was rendered
C16_Witness ==
    /\ RenderedTitleAndSummary
    /\ PairHas(last.summary_data, K_authors)
    /\ PairHas(last.summary_data, K_published)
    /\ PairHas(last.summary_data, K_other)
    /\ Contains(summaries[last.file_path], AuthorsLabel)

(***************************************************************************)
(* The event loop and the ArXivClient its handlers share.  The handlers    *)
(* are coroutines without an await inside: _search_arxiv, _fetch_paper and *)
(* _download_paper_content call the client directly, and the client calls  *)
(* time.sleep and requests.get, which block the thread of the loop until   *)
(* they return.  Time is counted in ticks.                                 *)
(***************************************************************************)
\* the client operations; get_paper_by_id and download_paper_content reach the
\* search service through search_papers
ArxivOps == {"search_papers", "get_paper_by_id", "download_paper_content"}

\* a _rate_limit that would never sleep
NoRateLimit(client, now, over) == now

\* ArXivClient._rate_limit called at time now: the time at which it returns, when
\* time.sleep sleeps `over` ticks longer than it was asked to
RateLimit(client, now, over) ==
    LET time_since_last == now - client.last_request_time
    IN IF time_since_last < client.delay_seconds
       THEN now + (client.delay_seconds - time_since_last) + over
       ELSE now

\* a request arrives and its handler is scheduled on the loop
AcceptRequest ==
    /\ Len(tasks) < MaxTasks
    /\ \E op \in ArxivOps :
          tasks' = Append(tasks, [op |-> op, pc |-> "accepted", outcome |-> "none"])
    /\ last' = [op |-> "accept", task |-> Len(tasks) + 1]
    /\ UNCHANGED <<arxiv_client, log>>
    /\ UNCHANGED <<config, groq_client, github_client, notes, summaries, references, saved,
                   clock, dispatched, answered, raisedBefore, invoked>>

\* the thread of the loop is inside a handler that waits for the search service
LoopBlocked == \E j \in 1..Len(tasks) : tasks[j].pc = "waiting"

\* the loop runs the handler of task i up to its requests.get: search_papers calls
\* _rate_limit, which sleeps and stamps _last_request_time, then sends the request
StartHandler(i) ==
    /\ tasks[i].pc = "accepted"
    /\ ~LoopBlocked
    /\ \E over \in 0..MaxOversleep :
          \E sent \in {RateLimit(arxiv_client, clock, over)} :
              /\ clock' = sent
              /\ arxiv_client' = [arxiv_client EXCEPT !.last_request_time = sent]
              /\ log' = Append(log, [op |-> tasks[i].op, task |-> i, at |-> sent])
    /\ tasks' = [tasks EXCEPT ![i].pc = "waiting"]
    /\ last' = [op |-> "send", task |-> i]
    /\ UNCHANGED <<config, groq_client, github_client, notes, summaries, references, saved,
                   dispatched, answered, raisedBefore, invoked>>

\* requests.get returns or raises RequestException; the handler ends and the
\* request is replied to, with a result or with the error text
FinishHandler(i) ==
    /\ tasks[i].pc = "waiting"
    /\ \E outcome \in {"ok", "fail"} :
          tasks' = [tasks EXCEPT ![i].pc = "replied", ![i].outcome = outcome]
    /\ last' = [op |-> "reply", task |-> i]
    /\ UNCHANGED <<arxiv_client, log>>
    /\ UNCHANGED <<config, groq_client, github_client, notes, summaries, references, saved,
                   clock, dispatched, answered, raisedBefore, invoked>>

\* time passes
Tick ==
    /\ clock < MaxTime
    /\ clock' = clock + 1
    /\ UNCHANGED <<arxiv_client, tasks, log>>
    /\ UNCHANGED <<config, groq_client, github_client, notes, summaries, references, saved,
                   last, dispatched, answered, raisedBefore, invoked>>

LoopStart == \E i \in 1..Len(tasks) : StartHandler(i)

LoopFinish == \E i \in 1..Len(tasks) : FinishHandler(i)

\* a client with some delay; time.time() is far beyond the delay when the server
\* starts, so that the first call does not sleep
InitLoop ==
    /\ config = [groq_api_key |-> FALSE, github_token |-> FALSE,
                 github_username |-> FALSE, github_repo |-> FALSE]
    /\ groq_client = FALSE
    /\ github_client = FALSE
    /\ notes = <<>>
    /\ summaries = <<>>
    /\ references = <<>>
    /\ saved = <<>>
    /\ clock = MaxDelay
    /\ last = NoOp
    /\ dispatched = 0
    /\ answered = 0
    /\ raisedBefore = FALSE
    /\ invoked = 0
    /\ \E delay_seconds \in 1..MaxDelay : arxiv_client = ArXivClient(delay_seconds)
    /\ tasks = <<>>
    /\ log = <<>>

NextLoop == AcceptRequest \/ LoopStart \/ LoopFinish \/ Tick

SpecLoop == InitLoop /\ [][NextLoop]_vars

\* C19: in the sequential use of one ArXivClient any two successive requests sent
\* to the search service, by whichever of the three operations and also after a
\* request that failed, are at least delay_seconds ticks apart.
C19_RequestsSpaced ==
    \A k \in 1..(Len(log) - 1) : log[k + 1].at - log[k].at >= arxiv_client.delay_seconds

\* a request that failed was followed, exactly delay_seconds later, by a request
\* of another operation that had to sleep
C19_Witness ==
    \E k \in 1..(Len(log) - 1) :
        /\ tasks[log[k].task].outcome = "fail"
        /\ log[k + 1].op # log[k].op
        /\ log[k + 1].at = log[k].at + arxiv_client.delay_seconds
        /\ arxiv_client.delay_seconds = MaxDelay

\* C20: while the handler of one request waits for its network I/O, another
\* accepted request on the same endpoint can start its handler, and so finish it,
\* before the first one replies.
C20_WaitDoesNotBlock ==
    \A a, b \in 1..Len(tasks) :
        (tasks[a].pc = "waiting" /\ tasks[b].pc = "accepted") => ENABLED StartHandler(b)

(***************************************************************************)
(* The two transports side by side.  A server process serves one of them:  *)
(* server.py hands its requests to call_tool, app.py to handle_jsonrpc.    *)
(***************************************************************************)
ShimCallTool == last.op # "rpc" /\ (CallKnownTool \/ CallUnknownTool)

ShimJsonRpc == last.op # "call_tool" /\ RpcRequest

\* a server started without credentials
InitShims == InitCommon

NextShims == ShimCallTool \/ ShimJsonRpc

SpecShims == InitShims /\ [][NextShims]_vars

\* C21: every request, on either transport, has at most one handler invoked, at
\* most once, and gets exactly one response within its own step, also when the
\* handler raises (a refused JSON-RPC version is answered by the HTTP 400
\* response); nothing is retried and nothing is put aside for later.
C21_OneHandlerOneResponse ==
    [][/\ dispatched' = dispatched + 1
       /\ tasks' = tasks
       /\ last'.op = "call_tool" =>
             /\ last'.awaited <= 1
             /\ answered' = answered + 1
             /\ ~last'.propagated
             /\ Len(last'.content) = 1
       /\ last'.op = "rpc" =>
             /\ invoked' = invoked + (IF last'.called THEN 1 ELSE 0)
             /\ last'.raised => last'.called
             /\ IF last'.rejected
                THEN answered' = answered /\ last'.status_code = BadRequest
                                          /\ ~last'.called
                ELSE answered' = answered + 1]_vars

\* the handler of a second dispatcher request raised, was awaited once and the
\* request was answered
C21_Witness ==
    /\ last.op = "call_tool"
    /\ last.raised
    /\ last.awaited = 1
    /\ dispatched = 2
    /\ answered = 2

(***************************************************************************)
(* The tool-invocation endpoint of mcp_server.py next to the JSON-RPC      *)
(* endpoint.  Both run over settings.notes_dir.                            *)
(***************************************************************************)
\* None, the default of subdir and paths
None == <<"None">>

\* the function each register_*_methods() call of app.py registers under a name
Registered(method) ==
    CASE method = "arxiv.search" -> "search_arxiv"
      [] method = "notes.save" -> "save_note"
      [] method = "notes.list" -> "list_notes"
      [] method = "notes.read" -> "read_note"
      [] method = "github.publish" -> "publish_notes"
      [] method = "summarize.text" -> "summarize_text"
      [] method = "summarize.arxiv_items" -> "summarize_arxiv_items"

\* the defaults in the def lines of the registered functions
Defaults(function) ==
    CASE function = "search_arxiv" -> [max_results |-> 5]
      [] function = "save_note" -> [subdir |-> None]
      [] function = "list_notes" -> [subdir |-> None]
      [] function = "read_note" -> [k \in {} |-> None]
      [] function = "publish_notes" ->
            [commit_message |-> "Update research notes", paths |-> None]
      [] function \in {"summarize_text", "summarize_arxiv_items"} ->
            [max_words |-> 150, model |-> ""]

\* the arguments a function runs with: the ones passed, and its defaults for the rest
Bound(all, defaults, params) ==
    [k \in all |-> IF k \in DOMAIN params THEN params[k] ELSE defaults[k]]

\* the names given to @server.tool in mcp_server.py
McpTools ==
    {"arxiv.search", "summarize.text", "summarize.arxiv_items", "notes.save",
     "notes.list", "notes.read", "github.publish"}

\* a notes.read tool that lists the notes
WrappedSwapped(name) ==
    CASE name = "arxiv.search" -> "search_arxiv"
      [] name = "summarize.text" -> "summarize_text"
      [] name = "summarize.arxiv_items" -> "summarize_arxiv_items"
      [] name = "notes.save" -> "save_note"
      [] name \in {"notes.list", "notes.read"} -> "list_notes"
      [] name = "github.publish" -> "publish_notes"

\* the function each _tool_* wrapper of mcp_server.py calls
Wrapped(name) ==
    CASE name = "arxiv.search" -> "search_arxiv"
      [] name = "summarize.text" -> "summarize_text"
      [] name = "summarize.arxiv_items" -> "summarize_arxiv_items"
      [] name = "notes.save" -> "save_note"
      [] name = "notes.list" -> "list_notes"
      [] name = "notes.read" -> "read_note"
      [] name = "github.publish" -> "publish_notes"

\* the parameters of the _tool_* wrappers: those without a default, and all
WrapperSignature(name) ==
    CASE name = "arxiv.search" ->
            [required |-> {"query"}, all |-> {"query", "max_results"}]
      [] name = "summarize.text" ->
            [required |-> {"text"}, all |-> {"text", "max_words", "model"}]
      [] name = "summarize.arxiv_items" ->
            [required |-> {"items"}, all |-> {"items", "max_words", "model"}]
      [] name = "notes.save" ->
            [required |-> {"title", "content"}, all |-> {"title", "content", "subdir"}]
      [] name = "notes.list" -> [required |-> {}, all |-> {"subdir"}]
      [] name = "notes.read" -> [required |-> {"path"}, all |-> {"path"}]
      [] name = "github.publish" ->
            [required |-> {}, all |-> {"commit_message", "paths"}]

\* the defaults in the def lines of the _tool_* wrappers
WrapperDefaults(name) ==
    CASE name = "arxiv.search" -> [max_results |-> 5]
      [] name \in {"summarize.text", "summarize.arxiv_items"} ->
            [max_words |-> 150, model |-> ""]
      [] name \in {"notes.save", "notes.list"} -> [subdir |-> None]
      [] name = "notes.read" -> [k \in {} |-> None]
      [] name = "github.publish" ->
            [commit_message |-> "Update research notes", paths |-> None]

\* the body of a function of tools/, by the name of the function
BodyOf(function, args, net, dir) ==
    Body(CHOOSE method \in MethodRegistry : Registered(method) = function, args, net, dir)

\* a tool call that ends without a result: the name is not a tool, the arguments
\* do not bind to the wrapper, or the function raised
McpFailed(called) ==
    [called |-> called, raised |-> TRUE, function |-> "", args |-> <<>>,
     content |-> <<>>, write |-> NoWrite]

\* a _tool_* wrapper: the function called with every parameter of the wrapper,
\* and _text_payload of what it returned
McpWrapper(name, function, passed, h) ==
    IF h.raised THEN McpFailed(TRUE)
    ELSE [called |-> TRUE, raised |-> FALSE, function |-> function, args |-> passed,
          content |-> <<TextContent(JsonText(h.result))>>, write |-> h.write]

\* one tool invocation on the endpoint of mcp_server.py
McpCallTool(name, params, net, dir) ==
    IF name \notin McpTools THEN McpFailed(FALSE)
    ELSE IF BindFails(WrapperSignature(name), params) THEN McpFailed(FALSE)
    ELSE LET passed == Bound(WrapperSignature(name).all, WrapperDefaults(name), params)
         IN McpWrapper(name, Wrapped(name), passed, BodyOf(Wrapped(name), passed, net, dir))

McpRecord(name, params, net, r) ==
    /\ dispatched' = dispatched + 1
    /\ answered' = answered + 1
    /\ invoked' = IF r.called THEN invoked + 1 ELSE invoked
    /\ notes' = Written(notes, "notes", r.write)
    /\ last' = [op |-> "mcp", name |-> name, params |-> params, net |-> net,
                called |-> r.called, raised |-> r.raised, function |-> r.function,
                args |-> r.args, content |-> r.content, write |-> r.write,
                notes_before |-> notes]
    /\ UNCHANGED <<arxiv_client, tasks, log>>
    /\ UNCHANGED <<config, groq_client, github_client, summaries, references, saved,
                   clock, raisedBefore>>

McpToolCall ==
    /\ dispatched < MaxRequests
    /\ \E name \in RpcMethods : \E params \in RpcParams(name) : \E net \in {"ok", "fail"} :
          \E r \in {McpCallTool(name, params, net, notes)} : McpRecord(name, params, net, r)

InitMcp == InitCommon

NextMcp == McpToolCall \/ RpcRequest

SpecMcp == InitMcp /\ [][NextMcp]_vars

\* the same call, posted to the JSON-RPC endpoint in the same state
SameRpc == 
    HandleJsonRpc([jsonrpc |-> "2.0", method |-> last.name, params |-> last.params,
                   id |-> NullId], last.net, last.notes_before)

\* C22: the method names of the JSON-RPC registry are the tool names of
\* mcp_server.py; under each name both endpoints call the same function, and for
\* each argument record they call it with the same arguments, write the same file
\* and return the same result data, or neither returns a result.
C22_SameOperations ==
    /\ MethodRegistry = McpTools
    /\ \A name \in McpTools : Wrapped(name) = Registered(name)
    /\ (last.op = "mcp" /\ last.name \in McpTools) =>
          /\ last.raised = SameRpc.response.is_error
          /\ ~last.raised =>
                /\ last.function = Registered(last.name)
                /\ last.args = Bound(Signature(last.name).all,
                                     Defaults(Registered(last.name)), last.params)
                /\ last.content[1].text.body = SameRpc.response.result
                /\ last.write = SameRpc.write

\* notes.save called as a tool without subdir wrote a second note
C22_Witness ==
    /\ last.op = "mcp"
    /\ last.name = "notes.save"
    /\ ~last.raised
    /\ "subdir" \notin DOMAIN last.params
    /\ last.args.subdir = None
    /\ last.write.dir = "notes"
    /\ dispatched = 2

(***************************************************************************)
(* validate_arxiv_id on its own: one identifier validated per behaviour.   *)
(***************************************************************************)
\* the parts identifiers are written from
YearMonths == {<<"2", "3", "0", "1">>, <<"0", "7", "0", "4">>}
PaperNumbers == {<<"0", "0", "0", "1">>, <<"1", "2", "3", "4", "5">>, <<"0", "0", "0", "0", "1">>}
Versions == {<<>>, <<"v", "1">>, <<"v", "1", "2">>}
Archives == {<<"c", "s">>, <<"h", "e", "p", "-", "t", "h">>, <<"m", "a", "t", "h">>}
SubjectClasses == {<<>>, <<".", "A", "I">>}
OldNumbers == {<<"0", "6", "0", "1", "0", "0", "1">>}
Prefixes == {<<>>, ArxivPrefix}

\* four digits, a dot, four or five digits, and a version suffix or none
NewStyleBases == {ym \o <<".">> \o nr : ym \in YearMonths, nr \in PaperNumbers}
NewStyleIds == {b \o v : b \in NewStyleBases, v \in Versions}

\* an archive, a subject class or none, a slash, seven digits, a version or none
OldStyleBases ==
    {a \o c \o <<"/">> \o nr : a \in Archives, c \in SubjectClasses, nr \in OldNumbers}
OldStyleIds == {b \o v : b \in OldStyleBases, v \in Versions}

\* the three identifiers the tests reject
RejectedIds == {<<"i", "n", "v", "a", "l", "i", "d">>, <<"1", "2", "3">>, <<>>}

\* identifiers one character away from a pattern
NearMisses ==
    {<<"2", "3", "0", "1", ".", "1", "2", "3">>, <<"2", "3", "0", "1", ".", "1", "2", "3", "4", "5", "6">>, <<"2", "3", "0", "1", ".", "1", "2", "3", "4", "5", "v">>, <<"2", "3", "0", "1", "-", "1", "2", "3", "4", "5">>, <<"x", "2", "3", "0", "1", ".", "1", "2", "3", "4", "5">>,
     <<"c", "s", ".", "a", "i", "/", "0", "6", "0", "1", "0", "0", "1">>, <<"C", "S", "/", "0", "6", "0", "1", "0", "0", "1">>, <<"c", "s", "/", "0", "6", "0", "1", "0", "0">>, <<"c", "s", ".", "A", "/", "0", "6", "0", "1", "0", "0", "1">>, <<"/", "0", "6", "0", "1", "0", "0", "1">>}

ValidateInputs ==
    {p \o id : p \in Prefixes \cup {UrlPrefix},
               id \in NewStyleIds \cup OldStyleIds \cup RejectedIds \cup NearMisses}

Validate ==
    /\ last = NoOp
    /\ \E arxiv_id \in ValidateInputs :
          last' = [op |-> "validate_arxiv_id", arxiv_id |-> arxiv_id,
                   result |-> ValidateArxivId(arxiv_id)]
    /\ UNCHANGED <<arxiv_client, tasks, log>>
    /\ UNCHANGED <<config, groq_client, github_client, notes, summaries, references, saved,
                   clock, dispatched, answered, raisedBefore, invoked>>

\* ArXivClient.get_paper_by_id: the identifier cleaned up for the lookup
CleanedId(arxiv_id) ==
    Remove(Remove(Remove(Remove(arxiv_id, ArxivPrefix), <<"v", "1">>), <<"v", "2">>),
           <<"v", "3">>)

\* the search_query get_paper_by_id hands to search_papers
IdQuery(arxiv_id) == <<"i", "d", ":">> \o CleanedId(arxiv_id)

\* one fetch_paper call: the identifier is validated and, when it is accepted,
\* looked up
FetchPaper ==
    /\ last = NoOp
    /\ \E arxiv_id \in ValidateInputs : \E net \in {"ok", "empty"} :
          \E h \in {_fetch_paper([arxiv_id |-> arxiv_id], net)} :
              last' = [op |-> "fetch_paper", arxiv_id |-> arxiv_id,
                       accepted |-> h.path # "invalid_id", path |-> h.path,
                       query |-> IF h.path = "invalid_id" THEN <<>> ELSE IdQuery(arxiv_id)]
    /\ UNCHANGED <<arxiv_client, tasks, log>>
    /\ UNCHANGED <<config, groq_client, github_client, notes, summaries, references, saved,
                   clock, dispatched, answered, raisedBefore, invoked>>

InitValidate == InitCommon

NextValidate == Validate \/ FetchPaper

SpecValidate == InitValidate /\ [][NextValidate]_vars

\* C23: validate_arxiv_id returns true for every identifier of the new-style
\* pattern (four digits, a dot, four or five digits, an optional version suffix) and
\* of the old-style pattern, with or without the "arXiv:" prefix, and false for
\* "invalid", "123" and the empty string.
C23_Validates ==
    last.op = "validate_arxiv_id" =>
        /\ (\E p \in Prefixes, id \in NewStyleIds \cup OldStyleIds : last.arxiv_id = p \o id)
              => last.result
        /\ last.arxiv_id \in RejectedIds => ~last.result

\* an old-style identifier with a subject class, a version and the prefix was accepted
C23_Witness ==
    /\ last.op = "validate_arxiv_id"
    /\ last.arxiv_id = ArxivPrefix \o <<"c", "s", ".", "A", "I", "/", "0", "6", "0", "1", "0", "0", "1", "v", "1", "2">>
    /\ last.result

(***************************************************************************)
(* The feed parser of the ArXivClient, and search_arxiv over it.  A feed   *)
(* document is modelled by what ET.fromstring makes of it: a ParseError,   *)
(* or the entry elements of the root, each with the text of its id element *)
(* (or none) and its link elements in document order.  Of the record       *)
(* _parse_entry builds, the model keeps id, arxiv_url, pdf_url, abs_url.   *)
(***************************************************************************)
Malformed == [wellformed |-> FALSE, entries |-> <<>>]
Feed(entries) == [wellformed |-> TRUE, entries |-> entries]

\* get_text('atom:id'): the stripped text of the element, "" without one
GetText(element) == IF element = <<>> \/ element[1] = <<>> THEN <<>> ELSE Strip(element[1])

\* the first segment in place of the last
FirstSegment(arxiv_url) == IF arxiv_url = <<>> THEN <<>> ELSE Split(arxiv_url, <<"/">>)[1]

\* arxiv_url.split('/')[-1] if arxiv_url else ""
LastSegment(arxiv_url) ==
    IF arxiv_url = <<>> THEN <<>>
    ELSE LET parts == Split(arxiv_url, <<"/">>) IN parts[Len(parts)]

Pdf == <<"p", "d", "f">>

\* one turn of the loop over the link elements
ScanLink(urls, link) ==
    IF link.rel = "alternate" /\ link.href # <<>> THEN [urls EXCEPT !.abs_url = link.href]
    ELSE IF link.rel = "related" /\ Contains(link.href, Pdf)
        THEN [urls EXCEPT !.pdf_url = link.href]
    ELSE urls

\* the loop over the link elements of an entry
RECURSIVE ScanLinks(_, _)
ScanLinks(links, urls) ==
    IF links = <<>> THEN urls ELSE ScanLinks(Tail(links), ScanLink(urls, Head(links)))

\* ArXivClient._parse_entry
ParseEntry(entry) ==
    LET arxiv_url == GetText(entry.id)
        urls == ScanLinks(entry.links, [pdf_url |-> <<>>, abs_url |-> <<>>])
    IN [id |-> LastSegment(arxiv_url), arxiv_url |-> arxiv_url,
        pdf_url |-> urls.pdf_url, abs_url |-> urls.abs_url]

\* a parser that lets the ParseError through
ParseErrorRaised(xml_content) ==
    IF ~xml_content.wellformed
    THEN [raised |-> TRUE, exc |-> <<"ParseError", "syntax error">>, papers |-> <<>>]
    ELSE [raised |-> FALSE, exc |-> <<>>,
          papers |-> [i \in 1..Len(xml_content.entries) |-> ParseEntry(xml_content.entries[i])]]

\* ArXivClient._parse_response: every record _parse_entry returns is a dict with
\* keys, so that each is appended
ParseResponse(xml_content) ==
    IF ~xml_content.wellformed THEN [raised |-> FALSE, exc |-> <<>>, papers |-> <<>>]
    ELSE [raised |-> FALSE, exc |-> <<>>,
          papers |-> [i \in 1..Len(xml_content.entries) |-> ParseEntry(xml_content.entries[i])]]

\* ArXivClient.search_papers, after _rate_limit: the request fails, or the text of
\* the response is parsed
SearchPapers(response) ==
    IF response.status = "fail"
    THEN [raised |-> TRUE, exc |-> <<"RequestException", "ArXiv API request failed">>,
          papers |-> <<>>]
    ELSE ParseResponse(response.text)

\* call_tool("search_arxiv", {"query": query}) when the service sends response
SearchArxiv(query, found) ==
    Answer("search_arxiv",
           IF found.raised THEN Raises(found.exc[1], found.exc[2])
           ELSE SearchResult(query, found.papers))

\* the feeds the service sends
IdTexts ==
    {UrlPrefix \o ValidId \o <<"v", "1">>,
     <<" ">> \o UrlPrefix \o ValidId \o <<"v", "2">> \o <<"\n">>,
     UrlPrefix \o <<"c", "s", "/", "0", "6", "0", "1", "0", "0", "1", "v", "1">>,
     ValidId}
IdElements == {<<>>} \cup {<<t>> : t \in IdTexts}

Link(rel, href) == [rel |-> rel, href |-> href]
LinkElements ==
    {Link("alternate", <<"a">>), Link("alternate", <<"b">>), Link("alternate", <<>>),
     Link("related", Pdf), Link("related", <<"x">> \o Pdf), Link("related", <<"a">>)}

SeqsUpTo(S, n) == UNION {[1..k -> S] : k \in 0..n}

Feeds ==
    {Malformed}
    \cup {Feed(<<[id |-> <<UrlPrefix \o ValidId>>, links |-> links]>>) :
            links \in SeqsUpTo(LinkElements, MaxLinks)}
    \cup {Feed([i \in 1..Len(ids) |-> [id |-> ids[i], links |-> <<>>]]) :
            ids \in SeqsUpTo(IdElements, MaxEntries)}

Responses == {[status |-> "fail", text |-> Malformed]}
                \cup {[status |-> "ok", text |-> xml] : xml \in Feeds}

\* one search_arxiv call over the response the service sends
FeedSearch ==
    /\ last = NoOp
    /\ \E response \in Responses :
          \E found \in {SearchPapers(response)} :
              \E r \in {SearchArxiv(CallTitle, found)} :
                  last' = [op |-> "search_arxiv", response |-> response,
                           found |-> found, raised |-> r.raised, content |-> r.content]
    /\ UNCHANGED <<arxiv_client, tasks, log>>
    /\ UNCHANGED <<config, groq_client, github_client, notes, summaries, references, saved,
                   clock, dispatched, answered, raisedBefore, invoked>>

InitFeed == InitCommon

NextFeed == FeedSearch

SpecFeed == InitFeed /\ [][NextFeed]_vars

\* the feed of the last search, when the service sent one that parses
Parsed == last.op = "search_arxiv" /\ last.response.status = "ok"
              /\ last.response.text.wellformed
Entries == last.response.text.entries

\* id is what follows the last "/" of url, the whole of it when it has none
IsLastSegment(id, url) ==
    /\ \A i \in 1..Len(id) : id[i] # "/"
    /\ \/ id = url /\ \A i \in 1..Len(url) : url[i] # "/"
       \/ Len(url) > Len(id) /\ url[Len(url) - Len(id)] = "/"
                             /\ From(url, Len(url) - Len(id) + 1) = id

\* C24: a feed with n entries yields n records, in feed order, and the identifier
\* of each record is the last "/"-separated segment of the id URL of its entry, a
\* version suffix included.
C24_IdIsLastSegment ==
    Parsed =>
        /\ Len(last.found.papers) = Len(Entries)
        /\ \A i \in 1..Len(Entries) :
              IF Entries[i].id = <<>> THEN last.found.papers[i].id = <<>>
              ELSE /\ last.found.papers[i].arxiv_url = Strip(Entries[i].id[1])
                   /\ IsLastSegment(last.found.papers[i].id, Strip(Entries[i].id[1]))

\* three entries, the second an old-style one: the identifiers keep their versions
C24_Witness ==
    /\ Parsed
    /\ Len(Entries) = 3
    /\ last.found.papers[1].id = ValidId \o <<"v", "2">>
    /\ last.found.papers[2].id = <<"0", "6", "0", "1", "0", "0", "1", "v", "1">>
    /\ last.found.papers[3].id = ValidId \o <<"v", "1">>

\* C25: a feed document that is not well-formed makes the parser return no records
\* without raising; search_papers returns an empty list and search_arxiv answers
\* with a result of zero papers, not with an error.
C25_MalformedIsEmpty ==
    (last.op = "search_arxiv" /\ last.response.status = "ok"
        /\ ~last.response.text.wellformed) =>
        /\ ~last.found.raised
        /\ last.found.papers = <<>>
        /\ ~last.raised
        /\ Len(last.content) = 1
        /\ last.content[1].text.enc = "json"
        /\ last.content[1].text.body.total_results = 0
        /\ last.content[1].text.body.papers = <<>>

\* the service sent a document that does not parse and the search was answered
C25_Witness ==
    /\ last.op = "search_arxiv"
    /\ last.response = [status |-> "ok", text |-> Malformed]
    /\ last.content[1].text.body.query = CallTitle

\* the links of the only entry of the feed, and those of a relation
Links == Entries[1].links
Related(rel) == SelectSeq(Links, LAMBDA link : link.rel = rel)

\* C26: whatever the number and the order of the link elements of an entry, the
\* landing-page link of its record is the address of the first link whose relation
\* is "alternate", and its content link is the address of a link whose relation is
\* "related" and whose address contains "pdf", empty when the entry has none.
C26_FirstAlternate ==
    (Parsed /\ Len(Entries) = 1) =>
        /\ last.found.papers[1].abs_url =
              (IF Related("alternate") = <<>> THEN <<>> ELSE Related("alternate")[1].href)
        /\ IF \E i \in 1..Len(Links) : Links[i].rel = "related" /\ Contains(Links[i].href, Pdf)
           THEN \E i \in 1..Len(Links) :
                   /\ Links[i].rel = "related"
                   /\ Contains(Links[i].href, Pdf)
                   /\ last.found.papers[1].pdf_url = Links[i].href
           ELSE last.found.papers[1].pdf_url = <<>>

\* C27: for every identifier fetch_paper accepts, the lookup key get_paper_by_id
\* sends to the search service is the base identifier: the input without its
\* "arXiv:" or URL prefix and without its version suffix, nothing else changed.
C27_KeyIsBaseId ==
    (last.op = "fetch_paper" /\ last.accepted) =>
        \A p \in Prefixes \cup {UrlPrefix}, b \in NewStyleBases \cup OldStyleBases,
           v \in Versions :
            last.arxiv_id = p \o b \o v => last.query = <<"i", "d", ":">> \o b

(***************************************************************************)
(* tools/summarizer_tool.py: summarize_text, called once per behaviour.    *)
(* settings holds the two API keys (by their truth value) and whether each *)
(* SDK could be imported; net is the outcome of the one LLM call made.     *)
(***************************************************************************)
\* the placeholder of the shorten call: three characters in the source file,
\* written here as three dots
Placeholder == <<".", ".", ".">>

\* the longest run of leading words that fits in width with the placeholder
Fitting(words, width) ==
    LET fits == {k \in 1..Len(words) :
                    Len(Join(SubSeq(words, 1, k), <<" ">>)) + Len(Placeholder) <= width}
    IN IF fits = {} THEN Placeholder
       ELSE Join(SubSeq(words, 1, CHOOSE k \in fits : \A j \in fits : j <= k), <<" ">>)
                \o Placeholder

\* textwrap.shorten(text, width=width, placeholder=Placeholder)
Shorten(text, width) ==
    IF width <= 0
    THEN [raised |-> TRUE, exc |-> <<"ValueError", "invalid width">>, out |-> <<>>]
    ELSE IF Len(Placeholder) > width
    THEN [raised |-> TRUE, exc |-> <<"ValueError", "placeholder too large for max width">>,
          out |-> <<>>]
    ELSE LET collapsed == Join(WhitespaceSplit(text), <<" ">>)
         IN [raised |-> FALSE, exc |-> <<>>,
             out |-> IF Len(collapsed) <= width THEN collapsed
                     ELSE Fitting(WhitespaceSplit(text), width)]

\* _summarize_with_groq and _summarize_with_openai: the stripped reply of the
\* model, or the exception of the SDK
SummarizeWith(llm, reply, net) ==
    IF net = "fail"
    THEN [raised |-> TRUE, source |-> "none", tried |-> {llm}, out |-> <<>>]
    ELSE [raised |-> FALSE, source |-> llm, tried |-> {llm}, out |-> Strip(reply)]

\* the try block of summarize_text
Attempt(settings, reply, net) ==
    IF settings.groq_api_key /\ settings.groq_available
    THEN SummarizeWith("groq", reply, net)
    ELSE IF settings.openai_api_key /\ settings.openai_available
    THEN SummarizeWith("openai", reply, net)
    ELSE [raised |-> TRUE, source |-> "none", tried |-> {}, out |-> <<>>]

\* the except clause of summarize_text, and its return
Shortened(attempt, short) ==
    IF short.raised
    THEN [raised |-> TRUE, exc |-> short.exc, source |-> "none", tried |-> attempt.tried,
          summary |-> <<>>]
    ELSE [raised |-> FALSE, exc |-> <<>>, source |-> "truncation", tried |-> attempt.tried,
          summary |-> short.out]

\* summarizer_tool.summarize_text
SummarizeText(text, max_words, settings, reply, net) ==
    LET attempt == Attempt(settings, reply, net)
    IN IF attempt.raised THEN Shortened(attempt, Shorten(text, max_words * 6))
       ELSE [raised |-> FALSE, exc |-> <<>>, source |-> attempt.source,
             tried |-> attempt.tried, summary |-> attempt.out]

SummarizerSettings ==
    [groq_api_key : BOOLEAN, groq_available : BOOLEAN,
     openai_api_key : BOOLEAN, openai_available : BOOLEAN]

SummaryTexts ==
    {<<>>, <<"a", " ", "b">>, <<"a", "a", "a", "a", "a", "a", "a">>,
     <<"a", "b", " ", " ", "c", "d", "\n", "e", "f", " ", "g", "h", " ", "i", "j">>}

LlmReply == <<" ", "s", "\n">>

Summarize ==
    /\ last = NoOp
    /\ \E text \in SummaryTexts : \E max_words \in 0..MaxWords :
          \E settings \in SummarizerSettings : \E net \in {"ok", "fail"} :
              \E r \in {SummarizeText(text, max_words, settings, LlmReply, net)} :
                  last' = [op |-> "summarize_text", text |-> text,
                           max_words |-> max_words, settings |-> settings, net |-> net,
                           raised |-> r.raised, exc |-> r.exc, source |-> r.source,
                           tried |-> r.tried, summary |-> r.summary]
    /\ UNCHANGED <<arxiv_client, tasks, log>>
    /\ UNCHANGED <<config, groq_client, github_client, notes, summaries, references, saved,
                   clock, dispatched, answered, raisedBefore, invoked>>

InitSummarize == InitCommon

NextSummarize == Summarize

SpecSummarize == InitSummarize /\ [][NextSummarize]_vars

\* the LLMs the settings of the last call configure
Configured ==
    (IF last.settings.groq_api_key /\ last.settings.groq_available THEN {"groq"} ELSE {})
    \cup (IF last.settings.openai_api_key /\ last.settings.openai_available
          THEN {"openai"} ELSE {})

\* C29: summarize_text never raises and always returns a record with a summary;
\* the summary comes from Groq when Groq is configured, otherwise from OpenAI when
\* OpenAI is configured, and the truncated input is the summary only after every
\* configured LLM was tried.
C29_SummaryFromLlm ==
    last.op = "summarize_text" =>
        /\ ~last.raised
        /\ "groq" \in Configured => last.source = "groq"
        /\ ("groq" \notin Configured /\ "openai" \in Configured) => last.source = "openai"
        /\ last.source = "truncation" => last.tried = Configured

(***************************************************************************)
(* Two callers inside search_papers of one ArXivClient at the same time,   *)
(* each on a thread of its own.  _rate_limit reads the clock and           *)
(* _last_request_time, sleeps, and only then writes _last_request_time;    *)
(* requests.get follows.  A thread can be preempted between any two of     *)
(* these steps.  tasks holds the position and the locals of each caller.   *)
(***************************************************************************)
Callers == 1..MaxCallers

Idle == [pc |-> "idle", current_time |-> 0, seen |-> 0, wake_at |-> 0, stamp |-> 0, at |-> 0]

\* lines 32-35 of caller c: current_time, the value of _last_request_time it reads,
\* and the time at which its time.sleep ends (a sleep that lasts longer is the
\* later scheduling of the next step)
RaceCheck(c) ==
    /\ tasks[c].pc = "idle"
    /\ tasks' = [tasks EXCEPT ![c] = [pc |-> "checked", current_time |-> clock,
                                      seen |-> arxiv_client.last_request_time,
                                      wake_at |-> RateLimit(arxiv_client, clock, 0),
                                      stamp |-> 0, at |-> 0]]
    /\ last' = [op |-> "check", task |-> c]
    /\ UNCHANGED <<arxiv_client, log>>
    /\ UNCHANGED <<config, groq_client, github_client, notes, summaries, references, saved,
                   clock, dispatched, answered, raisedBefore, invoked>>

\* line 36 of caller c, once its sleep is over
RaceStamp(c) ==
    /\ tasks[c].pc = "checked"
    /\ clock >= tasks[c].wake_at
    /\ arxiv_client' = [arxiv_client EXCEPT !.last_request_time = clock]
    /\ tasks' = [tasks EXCEPT ![c].pc = "stamped", ![c].stamp = clock]
    /\ last' = [op |-> "stamp", task |-> c]
    /\ UNCHANGED log
    /\ UNCHANGED <<config, groq_client, github_client, notes, summaries, references, saved,
                   clock, dispatched, answered, raisedBefore, invoked>>

\* _rate_limit has returned: caller c sends its request to the search service
RaceSend(c) ==
    /\ tasks[c].pc = "stamped"
    /\ tasks' = [tasks EXCEPT ![c].pc = "sent", ![c].at = clock]
    /\ log' = Append(log, [op |-> "search_papers", task |-> c, at |-> clock])
    /\ last' = [op |-> "send", task |-> c]
    /\ UNCHANGED arxiv_client
    /\ UNCHANGED <<config, groq_client, github_client, notes, summaries, references, saved,
                   clock, dispatched, answered, raisedBefore, invoked>>

Check == \E c \in Callers : RaceCheck(c)

Stamp == \E c \in Callers : RaceStamp(c)

Send == \E c \in Callers : RaceSend(c)

\* a client with some delay that has sent nothing yet; no caller has started
InitRace ==
    /\ config = [groq_api_key |-> FALSE, github_token |-> FALSE,
                 github_username |-> FALSE, github_repo |-> FALSE]
    /\ groq_client = FALSE
    /\ github_client = FALSE
    /\ notes = <<>>
    /\ summaries = <<>>
    /\ references = <<>>
    /\ saved = <<>>
    /\ clock = MaxDelay
    /\ last = NoOp
    /\ dispatched = 0
    /\ answered = 0
    /\ raisedBefore = FALSE
    /\ invoked = 0
    /\ \E delay_seconds \in 1..MaxDelay : arxiv_client = ArXivClient(delay_seconds)
    /\ tasks = [c \in Callers |-> Idle]
    /\ log = <<>>

NextRace == Check \/ Stamp \/ Send \/ Tick

SpecRace == InitRace /\ [][NextRace]_vars

\* caller c has written _last_request_time
Stamped(c) == tasks[c].pc \in {"stamped", "sent"}

\* C28: the check and the update of _last_request_time are separate steps.  Only
\* a caller whose check read a value at least as recent as the update of
\* another caller is kept delay_seconds behind that caller; two callers that
\* both checked before either updated are not kept apart, and they send their
\* requests less than delay_seconds apart.
C28_CheckThenUpdate ==
    \A a, b \in Callers :
        (a # b /\ Stamped(a) /\ Stamped(b)) =>
            /\ tasks[b].seen >= tasks[a].stamp =>
                  tasks[b].stamp - tasks[a].stamp >= arxiv_client.delay_seconds
            /\ tasks[b].pc = "sent" => tasks[b].at >= tasks[b].stamp

\* both callers checked before either of them updated, neither slept, and their
\* requests went out less than delay_seconds apart
C28_Witness ==
    \E a, b \in Callers :
        /\ a # b
        /\ Len(log) >= 2
        /\ log[1].task = a
        /\ log[2].task = b
        /\ tasks[a].seen = 0
        /\ tasks[b].seen = 0
        /\ tasks[b].current_time <= tasks[a].stamp
        /\ log[2].at - log[1].at < arxiv_client.delay_seconds
        /\ tasks[b].stamp - tasks[a].stamp < arxiv_client.delay_seconds
        /\ tasks[a].stamp - tasks[b].stamp < arxiv_client.delay_seconds

(***************************************************************************)
(* The catalog against the dispatcher.                                     *)
(***************************************************************************)
\* what call_tool answers to a request for name in the current state
AnswerNow(name, arguments) ==
    CallTool(name, arguments,
             Env("ok", groq_client, github_client, notes, summaries, references, clock))

\* C30: under every credential configuration, every name get_tools lists has its
\* own branch in call_tool: a call of a listed name awaits one handler and is never
\* answered by the final else branch with the "Unknown tool" text.
C30_ListedIsDispatched ==
    /\ (last.op = "call_tool" /\ last.listed) =>
          /\ last.path # "unknown"
          /\ last.awaited = 1
          /\ ~(LastText.enc = "plain" /\ LastText.msg = "Unknown tool: ")
    /\ last.op = "get_tools" =>
          \A i \in 1..Len(last.tools) : AnswerNow(last.tools[i], NoArguments).path # "unknown"

\* a repository-backed tool, listed because all three GitHub credentials were
\* supplied, was called and answered by its handler
C30_Witness ==
    /\ last.op = "call_tool"
    /\ last.listed
    /\ last.name = "get_repository_info"
    /\ ~groq_client
    /\ github_client
    /\ last.path = "ok"
    /\ dispatched = 2


====
